---------------------------- MODULE Spec2Model ----------------------------
(***************************************************************************)
(* TLS trust-material builder of kafka-proxy (proxy/tls.go).               *)
(*                                                                         *)
(* Go strings that the code inspects character by character (cipher-suite  *)
(* and curve names, which are trimmed and looked up) are sequences of      *)
(* one-character strings.  File paths and passwords, which the code only   *)
(* compares with "", are plain strings.  File contents ([]byte holding PEM *)
(* text) are sequences of items: an item is a PEM block or a run of text   *)
(* that is not a PEM block.                                                *)
(***************************************************************************)
EXTENDS Integers, Sequences, FiniteSets, TLC

(***************************************************************************)
(* Bounds of the model.                                                    *)
(***************************************************************************)
\* longest name list passed to getCipherSuites / getCurvePreferences directly
MaxNames == 3
\* most names configured in one listener configuration (both lists together)
MaxConfNames == 2

(***************************************************************************)
(* crypto/tls identifiers used by tls.go.                                  *)
(***************************************************************************)
TLS_RSA_WITH_3DES_EDE_CBC_SHA == 10
TLS_RSA_WITH_AES_128_CBC_SHA == 47
TLS_RSA_WITH_AES_256_CBC_SHA == 53
TLS_ECDHE_ECDSA_WITH_AES_128_CBC_SHA == 49161
TLS_ECDHE_ECDSA_WITH_AES_256_CBC_SHA == 49162
TLS_ECDHE_RSA_WITH_3DES_EDE_CBC_SHA == 49170
TLS_ECDHE_RSA_WITH_AES_128_CBC_SHA == 49171
TLS_ECDHE_RSA_WITH_AES_256_CBC_SHA == 49172
TLS_ECDHE_ECDSA_WITH_AES_128_GCM_SHA256 == 49195
TLS_ECDHE_ECDSA_WITH_AES_256_GCM_SHA384 == 49196
TLS_ECDHE_RSA_WITH_AES_128_GCM_SHA256 == 49199
TLS_ECDHE_RSA_WITH_AES_256_GCM_SHA384 == 49200
TLS_ECDHE_RSA_WITH_CHACHA20_POLY1305 == 52392
TLS_ECDHE_ECDSA_WITH_CHACHA20_POLY1305 == 52393

CurveP256 == 23
CurveP384 == 24
CurveP521 == 25
X25519 == 29

VersionTLS12 == 771
NoClientCert == 0
RequireAndVerifyClientCert == 4

(***************************************************************************)
(* The names of the two tables, as character sequences.                    *)
(***************************************************************************)
S_ECDHE_ECDSA_AES256_GCM_SHA384 ==
    <<"E","C","D","H","E","-","E","C","D","S","A","-","A","E","S","2","5","6","-","G","C","M","-","S","H","A","3","8","4">>
S_ECDHE_RSA_AES256_GCM_SHA384 ==
    <<"E","C","D","H","E","-","R","S","A","-","A","E","S","2","5","6","-","G","C","M","-","S","H","A","3","8","4">>
S_ECDHE_ECDSA_AES128_GCM_SHA256 ==
    <<"E","C","D","H","E","-","E","C","D","S","A","-","A","E","S","1","2","8","-","G","C","M","-","S","H","A","2","5","6">>
S_ECDHE_RSA_AES128_GCM_SHA256 ==
    <<"E","C","D","H","E","-","R","S","A","-","A","E","S","1","2","8","-","G","C","M","-","S","H","A","2","5","6">>
S_ECDHE_ECDSA_WITH_CHACHA20_POLY1305 ==
    <<"E","C","D","H","E","-","E","C","D","S","A","-","W","I","T","H","-","C","H","A","C","H","A","2","0","-","P","O","L","Y","1","3","0","5">>
S_ECDHE_RSA_WITH_CHACHA20_POLY1305 ==
    <<"E","C","D","H","E","-","R","S","A","-","W","I","T","H","-","C","H","A","C","H","A","2","0","-","P","O","L","Y","1","3","0","5">>
S_ECDHE_RSA_AES256_CBC_SHA ==
    <<"E","C","D","H","E","-","R","S","A","-","A","E","S","2","5","6","-","C","B","C","-","S","H","A">>
S_ECDHE_RSA_AES128_CBC_SHA ==
    <<"E","C","D","H","E","-","R","S","A","-","A","E","S","1","2","8","-","C","B","C","-","S","H","A">>
S_ECDHE_ECDSA_AES256_CBC_SHA ==
    <<"E","C","D","H","E","-","E","C","D","S","A","-","A","E","S","2","5","6","-","C","B","C","-","S","H","A">>
S_ECDHE_ECDSA_AES128_CBC_SHA ==
    <<"E","C","D","H","E","-","E","C","D","S","A","-","A","E","S","1","2","8","-","C","B","C","-","S","H","A">>
S_RSA_AES256_CBC_SHA ==
    <<"R","S","A","-","A","E","S","2","5","6","-","C","B","C","-","S","H","A">>
S_RSA_AES128_CBC_SHA ==
    <<"R","S","A","-","A","E","S","1","2","8","-","C","B","C","-","S","H","A">>
S_ECDHE_RSA_3DES_EDE_CBC_SHA ==
    <<"E","C","D","H","E","-","R","S","A","-","3","D","E","S","-","E","D","E","-","C","B","C","-","S","H","A">>
S_RSA_3DES_EDE_CBC_SHA ==
    <<"R","S","A","-","3","D","E","S","-","E","D","E","-","C","B","C","-","S","H","A">>
S_X25519 ==
    <<"X","2","5","5","1","9">>
S_P256 ==
    <<"P","2","5","6">>
S_P384 ==
    <<"P","3","8","4">>
S_P521 ==
    <<"P","5","2","1">>

(***************************************************************************)
(* Package-level tables (tls.go, var block).  A Go map literal has no      *)
(* order of its own; the tables are kept as sequences of <<name, id>> in   *)
(* the order in which the source lists them, and looked up by name.        *)
(***************************************************************************)
defaultCurvePreferences == <<CurveP256, X25519>>

supportedCurvesMap ==
    << <<S_X25519, X25519>>,
       <<S_P256, CurveP256>>,
       <<S_P384, CurveP384>>,
       <<S_P521, CurveP521>> >>

defaultCipherSuites ==
    << TLS_ECDHE_ECDSA_WITH_AES_256_GCM_SHA384,
       TLS_ECDHE_RSA_WITH_AES_256_GCM_SHA384,
       TLS_ECDHE_ECDSA_WITH_CHACHA20_POLY1305,
       TLS_ECDHE_RSA_WITH_CHACHA20_POLY1305,
       TLS_ECDHE_ECDSA_WITH_AES_128_GCM_SHA256,
       TLS_ECDHE_RSA_WITH_AES_128_GCM_SHA256 >>

supportedCiphersMap ==
    << <<S_ECDHE_ECDSA_AES256_GCM_SHA384, TLS_ECDHE_ECDSA_WITH_AES_256_GCM_SHA384>>,
       <<S_ECDHE_RSA_AES256_GCM_SHA384, TLS_ECDHE_RSA_WITH_AES_256_GCM_SHA384>>,
       <<S_ECDHE_ECDSA_AES128_GCM_SHA256, TLS_ECDHE_ECDSA_WITH_AES_128_GCM_SHA256>>,
       <<S_ECDHE_RSA_AES128_GCM_SHA256, TLS_ECDHE_RSA_WITH_AES_128_GCM_SHA256>>,
       <<S_ECDHE_ECDSA_WITH_CHACHA20_POLY1305, TLS_ECDHE_ECDSA_WITH_CHACHA20_POLY1305>>,
       <<S_ECDHE_RSA_WITH_CHACHA20_POLY1305, TLS_ECDHE_RSA_WITH_CHACHA20_POLY1305>>,
       <<S_ECDHE_RSA_AES256_CBC_SHA, TLS_ECDHE_RSA_WITH_AES_256_CBC_SHA>>,
       <<S_ECDHE_RSA_AES128_CBC_SHA, TLS_ECDHE_RSA_WITH_AES_128_CBC_SHA>>,
       <<S_ECDHE_ECDSA_AES256_CBC_SHA, TLS_ECDHE_ECDSA_WITH_AES_256_CBC_SHA>>,
       <<S_ECDHE_ECDSA_AES128_CBC_SHA, TLS_ECDHE_ECDSA_WITH_AES_128_CBC_SHA>>,
       <<S_RSA_AES256_CBC_SHA, TLS_RSA_WITH_AES_256_CBC_SHA>>,
       <<S_RSA_AES128_CBC_SHA, TLS_RSA_WITH_AES_128_CBC_SHA>>,
       <<S_ECDHE_RSA_3DES_EDE_CBC_SHA, TLS_ECDHE_RSA_WITH_3DES_EDE_CBC_SHA>>,
       <<S_RSA_3DES_EDE_CBC_SHA, TLS_RSA_WITH_3DES_EDE_CBC_SHA>> >>

\* m[key] of a Go map: the comma-ok form, ok = FALSE and the zero value
\* when the key is absent.
MapLookup(m, key) ==
    IF \E i \in 1..Len(m) : m[i][1] = key
    THEN [ok |-> TRUE, val |-> m[CHOOSE i \in 1..Len(m) : m[i][1] = key][2]]
    ELSE [ok |-> FALSE, val |-> 0]

(***************************************************************************)
(* strings.TrimSpace: the string without its leading and trailing white    *)
(* space.                                                                  *)
(***************************************************************************)
\* unicode.IsSpace: the ASCII white space (tab, line feed, vertical tab, form
\* feed, carriage return, space), U+0085 and U+00A0, and the characters of
\* category Z (U+1680, U+2000 to U+200A, U+2028, U+2029, U+202F, U+205F,
\* U+3000).  An ASCII character is written as itself, any other character by
\* its code point ("U+00E9" is the one character U+00E9).
VerticalTab == ""

NextLine == "U+0085"

NoBreakSpace == "U+00A0"

SpaceSeparators ==
    {"U+1680", "U+2000", "U+2001", "U+2002", "U+2003", "U+2004", "U+2005",
     "U+2006", "U+2007", "U+2008", "U+2009", "U+200A", "U+2028",
     "U+2029", "U+202F", "U+205F", "U+3000"}

IsSpace(c) ==
    c \in {"\t", "\n", VerticalTab, "\f", "\r", " ", NextLine, NoBreakSpace}
            \cup SpaceSeparators

RECURSIVE TrimLeft(_)
TrimLeft(s) ==
    IF s # <<>> /\ IsSpace(Head(s)) THEN TrimLeft(Tail(s)) ELSE s

RECURSIVE TrimRight(_)
TrimRight(s) ==
    IF s # <<>> /\ IsSpace(s[Len(s)])
    THEN TrimRight(SubSeq(s, 1, Len(s) - 1))
    ELSE s

\* mutant: only the leading white space is cut
TrimSpace_LeftOnly(s) == TrimLeft(s)

TrimSpace(s) == TrimRight(TrimLeft(s))

(***************************************************************************)
(* Errors.  A Go error is modelled by its message and the values formatted *)
(* into it: name for a cipher-suite or curve name (%s of errors.Errorf),   *)
(* path for the file of a failed read.                                     *)
(***************************************************************************)
NoErr == [msg |-> "", name |-> <<>>, path |-> ""]

Error(m) == [msg |-> m, name |-> <<>>, path |-> ""]

Errorf(m, n) == [msg |-> m, name |-> n, path |-> ""]

PathError(p) == [msg |-> "open: no such file or directory", name |-> <<>>, path |-> p]

(***************************************************************************)
(* getCipherSuites.  The loop runs over the names in order and returns at  *)
(* the first name that does not resolve; suites is the slice built so far. *)
(* A result is [ids, err]: ids is <<>> where the code returns nil.         *)
(***************************************************************************)
\* mutant: each identifier is put in front of the slice instead of appended
RECURSIVE cipherSuitesLoop_Prepend(_, _)
cipherSuitesLoop_Prepend(enabledCipherSuites, suites) ==
    IF enabledCipherSuites = <<>>
    THEN [ids |-> suites, err |-> NoErr]
    ELSE LET suite == Head(enabledCipherSuites)
             found == MapLookup(supportedCiphersMap, TrimSpace(suite))
         IN  IF ~found.ok
             THEN [ids |-> <<>>, err |-> Errorf("invalid cipher suite '%s' selected", suite)]
             ELSE cipherSuitesLoop_Prepend(Tail(enabledCipherSuites),
                                           <<found.val>> \o suites)

RECURSIVE cipherSuitesLoop(_, _)
cipherSuitesLoop(enabledCipherSuites, suites) ==
    IF enabledCipherSuites = <<>>
    THEN [ids |-> suites, err |-> NoErr]
    ELSE LET suite == Head(enabledCipherSuites)
             found == MapLookup(supportedCiphersMap, TrimSpace(suite))
         IN  IF ~found.ok
             THEN [ids |-> <<>>, err |-> Errorf("invalid cipher suite '%s' selected", suite)]
             ELSE cipherSuitesLoop(Tail(enabledCipherSuites), Append(suites, found.val))

\* mutant: an empty result is returned as it is, without the default set
getCipherSuites_NoDefault(enabledCipherSuites) ==
    cipherSuitesLoop(enabledCipherSuites, <<>>)

getCipherSuites(enabledCipherSuites) ==
    LET r == cipherSuitesLoop(enabledCipherSuites, <<>>)
    IN  IF r.err # NoErr THEN r
        ELSE IF Len(r.ids) = 0 THEN [ids |-> defaultCipherSuites, err |-> NoErr]
        ELSE r

(***************************************************************************)
(* getCurvePreferences: the same loop over the curve table.                *)
(***************************************************************************)
\* mutant: the error is formatted with the trimmed name
RECURSIVE curvePreferencesLoop_Trimmed(_, _)
curvePreferencesLoop_Trimmed(enabledCurvePreferences, curvePreferences) ==
    IF enabledCurvePreferences = <<>>
    THEN [ids |-> curvePreferences, err |-> NoErr]
    ELSE LET curveID == TrimSpace(Head(enabledCurvePreferences))
             found == MapLookup(supportedCurvesMap, curveID)
         IN  IF ~found.ok
             THEN [ids |-> <<>>, err |-> Errorf("invalid curveID '%s' selected", curveID)]
             ELSE curvePreferencesLoop_Trimmed(Tail(enabledCurvePreferences),
                                               Append(curvePreferences, found.val))

RECURSIVE curvePreferencesLoop(_, _)
curvePreferencesLoop(enabledCurvePreferences, curvePreferences) ==
    IF enabledCurvePreferences = <<>>
    THEN [ids |-> curvePreferences, err |-> NoErr]
    ELSE LET curveID == Head(enabledCurvePreferences)
             found == MapLookup(supportedCurvesMap, TrimSpace(curveID))
         IN  IF ~found.ok
             THEN [ids |-> <<>>, err |-> Errorf("invalid curveID '%s' selected", curveID)]
             ELSE curvePreferencesLoop(Tail(enabledCurvePreferences),
                                       Append(curvePreferences, found.val))

getCurvePreferences(enabledCurvePreferences) ==
    LET r == curvePreferencesLoop(enabledCurvePreferences, <<>>)
    IN  IF r.err # NoErr THEN r
        ELSE IF Len(r.ids) = 0 THEN [ids |-> defaultCurvePreferences, err |-> NoErr]
        ELSE r

(***************************************************************************)
(* The array behind a returned slice.  The slice getCipherSuites returns   *)
(* is the package-level variable defaultCipherSuites itself when no suite  *)
(* was collected, and else the array that make and append built, here the  *)
(* array made; NilArray where the code returns nil.  The same holds for    *)
(* getCurvePreferences and defaultCurvePreferences.  An array is named by  *)
(* the variable that holds it and, for one made by a build, by the number  *)
(* of the build.                                                           *)
(***************************************************************************)
NilArray == [name |-> "nil", n |-> 0]

DefaultCipherSuitesArray == [name |-> "defaultCipherSuites", n |-> 0]

DefaultCurvePreferencesArray == [name |-> "defaultCurvePreferences", n |-> 0]

cipherSuitesArray(enabledCipherSuites, made) ==
    LET r == cipherSuitesLoop(enabledCipherSuites, <<>>)
    IN  IF r.err # NoErr THEN NilArray
        ELSE IF Len(r.ids) = 0 THEN DefaultCipherSuitesArray
        ELSE made

curvePreferencesArray(enabledCurvePreferences, made) ==
    LET r == curvePreferencesLoop(enabledCurvePreferences, <<>>)
    IN  IF r.err # NoErr THEN NilArray
        ELSE IF Len(r.ids) = 0 THEN DefaultCurvePreferencesArray
        ELSE made

(***************************************************************************)
(* PEM data.  The bytes of a block (DER) are a record:                     *)
(*   kind      "cert", "pkcs1" (a private key), "encrypted" (the legacy    *)
(*             encryption of a pkcs1 key), "noise" or "none";              *)
(*   key       the key pair: a certificate's public key, a private key,    *)
(*             or the private key inside an encrypted block;               *)
(*   subject   a certificate's subject, issuer its issuer, each a          *)
(*             distinguished name [O, CN]; signer the key that signed it;  *)
(*             names its DNS names;                                        *)
(*   size      the number of bytes;                                        *)
(*   pw        the password an encrypted block was encrypted with;         *)
(*   pads      the other passwords under which the block decrypts to bytes *)
(*             that end in well-formed padding (the legacy format has no   *)
(*             integrity check, so x509.DecryptPEMBlock cannot tell these  *)
(*             from the password).                                         *)
(* A block is [isPEM, Type, Headers, Bytes]; Type is a sequence of         *)
(* characters; Headers is a set of <<key, fields>>, fields being the value *)
(* split at its commas (the fields of DEK-Info after the first are         *)
(* sequences of characters).  Text that is no PEM block is an item with    *)
(* isPEM = FALSE.                                                          *)
(***************************************************************************)
NoName == [O |-> "", CN |-> ""]

NoBytes ==
    [kind |-> "none", key |-> "", subject |-> NoName, issuer |-> NoName,
     signer |-> "", isCA |-> FALSE, names |-> {}, size |-> 0, pw |-> "",
     pads |-> {}]

\* a certificate for the key k, signed with the key signerKey
CertDER(subj, dns, k, iss, signerKey) ==
    [NoBytes EXCEPT !.kind = "cert", !.key = k, !.subject = subj, !.issuer = iss,
                    !.signer = signerKey, !.names = dns, !.size = 900]

\* x509.MarshalPKCS1PrivateKey of a 2048-bit key
KeyDER(k) == [NoBytes EXCEPT !.kind = "pkcs1", !.key = k, !.size = 1191]

NoiseDER == [NoBytes EXCEPT !.kind = "noise", !.size = 1191]

\* the legacy encryption pads the key to whole cipher blocks
EncryptedDER(k, password, lucky) ==
    [NoBytes EXCEPT !.kind = "encrypted", !.key = k, !.pw = password, !.pads = lucky,
                    !.size = 1200]

T_CERTIFICATE == <<"C","E","R","T","I","F","I","C","A","T","E">>

T_PRIVATE_KEY == <<"P","R","I","V","A","T","E"," ","K","E","Y">>

T_RSA_PRIVATE_KEY == <<"R","S","A"," ">> \o T_PRIVATE_KEY

T_ENCRYPTED_PRIVATE_KEY == <<"E","N","C","R","Y","P","T","E","D"," ">> \o T_PRIVATE_KEY

T_PUBLIC_KEY == <<"P","U","B","L","I","C"," ","K","E","Y">>

\* strings.HasSuffix
HasSuffix(s, suffix) ==
    /\ Len(s) >= Len(suffix)
    /\ SubSeq(s, Len(s) - Len(suffix) + 1, Len(s)) = suffix

Block(type, headers, bytes) ==
    [isPEM |-> TRUE, Type |-> type, Headers |-> headers, Bytes |-> bytes]

Text == [isPEM |-> FALSE, Type |-> <<>>, Headers |-> {}, Bytes |-> NoBytes]

NilBlock == [isPEM |-> FALSE, Type |-> <<"n","i","l">>, Headers |-> {}, Bytes |-> NoBytes]

\* pem.Decode: the first PEM block of the data and the data after it; a nil
\* block and the whole data when there is none.
pemDecode(data) ==
    IF \E i \in 1..Len(data) : data[i].isPEM
    THEN LET i == CHOOSE j \in 1..Len(data) :
                      data[j].isPEM /\ \A h \in 1..(j - 1) : ~data[h].isPEM
         IN  [block |-> data[i], rest |-> SubSeq(data, i + 1, Len(data))]
    ELSE [block |-> NilBlock, rest |-> data]

\* pem.EncodeToMemory
pemEncodeToMemory(b) == << Block(b.Type, b.Headers, b.Bytes) >>

HasHeader(b, k) == \E h \in b.Headers : h[1] = k

HeaderValue(b, k) == (CHOOSE h \in b.Headers : h[1] = k)[2]

\* x509.IsEncryptedPEMBlock
IsEncryptedPEMBlock(b) == HasHeader(b, "DEK-Info")

\* the modes x509.DecryptPEMBlock knows (its rfc1423Algos)
rfc1423Algos == {"DES-CBC", "DES-EDE3-CBC", "AES-128-CBC", "AES-192-CBC", "AES-256-CBC"}

\* the block size of a mode: 8 bytes for DES and triple DES, 16 for AES
blockSize(mode) == IF mode \in {"DES-CBC", "DES-EDE3-CBC"} THEN 8 ELSE 16

HexDigits ==
    {"0", "1", "2", "3", "4", "5", "6", "7", "8", "9",
     "a", "b", "c", "d", "e", "f", "A", "B", "C", "D", "E", "F"}

\* strings.Join(fields, ","): the value of a header after its first comma is
\* its fields but the first, with the commas between them
RECURSIVE JoinComma(_)
JoinComma(fields) ==
    IF fields = <<>> THEN <<>>
    ELSE IF Len(fields) = 1 THEN fields[1]
    ELSE fields[1] \o <<",">> \o JoinComma(Tail(fields))

\* hex.DecodeString: [n, err], n the number of bytes decoded.  The first
\* character that is no hex digit is an error, then an odd length.
hexDecodeString(s) ==
    IF \E i \in 1..Len(s) : s[i] \notin HexDigits
    THEN [n |-> 0,
          err |-> Errorf("encoding/hex: invalid byte: %#U",
                         <<s[CHOOSE i \in 1..Len(s) :
                                /\ s[i] \notin HexDigits
                                /\ \A j \in 1..(i - 1) : s[j] \in HexDigits]>>)]
    ELSE IF Len(s) % 2 = 1
    THEN [n |-> 0, err |-> Error("encoding/hex: odd length hex string")]
    ELSE [n |-> Len(s) \div 2, err |-> NoErr]

\* x509.DecryptPEMBlock, from the key derivation on: size is the block size
\* of the mode, iv what hex.DecodeString made of the vector.  The vector and
\* the data must fit the block size; after decrypting, the only check is that
\* the last bytes are well-formed padding.
decryptCBC(bytes, password, size, iv) ==
    IF iv.err # NoErr
    THEN [key |-> NoBytes, err |-> iv.err]
    ELSE IF iv.n # size
    THEN [key |-> NoBytes, err |-> Error("x509: incorrect IV size")]
    ELSE IF bytes.size % size # 0
    THEN [key |-> NoBytes,
          err |-> Error("x509: encrypted PEM data is not a multiple of the block size")]
    ELSE IF bytes.size = 0
    THEN [key |-> NoBytes, err |-> Error("x509: invalid padding")]
    ELSE IF bytes.kind = "encrypted" /\ password = bytes.pw
    THEN [key |-> KeyDER(bytes.key), err |-> NoErr]
    ELSE IF password \in bytes.pads
    THEN [key |-> NoiseDER, err |-> NoErr]
    ELSE [key |-> NoBytes, err |-> Error("x509: decryption password incorrect")]

\* x509.DecryptPEMBlock, from the header on: dek is the value of DEK-Info,
\* cut at its first comma into the mode and the vector in hex
decryptWithHeader(b, password, dek) ==
    IF Len(dek) < 2
    THEN [key |-> NoBytes, err |-> Error("x509: malformed DEK-Info header")]
    ELSE IF dek[1] \notin rfc1423Algos
    THEN [key |-> NoBytes, err |-> Error("x509: unknown encryption mode")]
    ELSE decryptCBC(b.Bytes, password, blockSize(dek[1]),
                    hexDecodeString(JoinComma(Tail(dek))))

\* x509.DecryptPEMBlock: [key, err]
DecryptPEMBlock(b, password) ==
    IF ~HasHeader(b, "DEK-Info")
    THEN [key |-> NoBytes, err |-> Error("x509: no DEK-Info header in block")]
    ELSE decryptWithHeader(b, password, HeaderValue(b, "DEK-Info"))

\* mutant: a block that is not encrypted is returned re-encoded, not as the
\* bytes that came in
decryptPEM_Reencode(pemData, password) ==
    LET keyBlock == pemDecode(pemData).block
    IN  IF keyBlock = NilBlock
        THEN [data |-> <<>>, err |-> Error("Failed to parse PEM")]
        ELSE IF IsEncryptedPEMBlock(keyBlock)
        THEN IF password = ""
             THEN [data |-> <<>>, err |-> Error("PEM is encrypted, but password is empty")]
             ELSE LET dec == DecryptPEMBlock(keyBlock, password)
                  IN  IF dec.err # NoErr
                      THEN [data |-> <<>>, err |-> dec.err]
                      ELSE [data |-> pemEncodeToMemory(Block(T_RSA_PRIVATE_KEY, {}, dec.key)),
                            err |-> NoErr]
        ELSE [data |-> pemEncodeToMemory(keyBlock), err |-> NoErr]

\* mutant: no check of the password before decrypting
decryptPEM_NoEmptyCheck(pemData, password) ==
    LET keyBlock == pemDecode(pemData).block
    IN  IF keyBlock = NilBlock
        THEN [data |-> <<>>, err |-> Error("Failed to parse PEM")]
        ELSE IF IsEncryptedPEMBlock(keyBlock)
        THEN LET dec == DecryptPEMBlock(keyBlock, password)
             IN  IF dec.err # NoErr
                 THEN [data |-> <<>>, err |-> dec.err]
                 ELSE [data |-> pemEncodeToMemory(Block(T_RSA_PRIVATE_KEY, {}, dec.key)),
                       err |-> NoErr]
        ELSE [data |-> pemData, err |-> NoErr]

(***************************************************************************)
(* decryptPEM                                                              *)
(***************************************************************************)
decryptPEM(pemData, password) ==
    LET keyBlock == pemDecode(pemData).block
    IN  IF keyBlock = NilBlock
        THEN [data |-> <<>>, err |-> Error("Failed to parse PEM")]
        ELSE IF IsEncryptedPEMBlock(keyBlock)
        THEN IF password = ""
             THEN [data |-> <<>>, err |-> Error("PEM is encrypted, but password is empty")]
             ELSE LET dec == DecryptPEMBlock(keyBlock, password)
                  IN  IF dec.err # NoErr
                      THEN [data |-> <<>>, err |-> dec.err]
                      ELSE [data |-> pemEncodeToMemory(Block(T_RSA_PRIVATE_KEY, {}, dec.key)),
                            err |-> NoErr]
        ELSE [data |-> pemData, err |-> NoErr]

(***************************************************************************)
(* crypto/x509 and crypto/tls as tls.go uses them.                         *)
(***************************************************************************)
\* the block types tls.X509KeyPair takes for a private key: "PRIVATE KEY" or
\* a type ending in " PRIVATE KEY"
IsPrivateKeyType(t) == t = T_PRIVATE_KEY \/ HasSuffix(t, <<" ">> \o T_PRIVATE_KEY)

\* x509.ParseCertificate succeeds on the bytes of a certificate
ParsesAsCertificate(der) == der.kind = "cert"

\* tls.parsePrivateKey succeeds on the bytes of a plaintext private key
ParsesAsPrivateKey(der) == der.kind = "pkcs1"

\* the CERTIFICATE blocks of the data, in order (the first loop of X509KeyPair)
RECURSIVE CertificateBlocks(_)
CertificateBlocks(data) ==
    LET d == pemDecode(data)
    IN  IF d.block = NilBlock THEN <<>>
        ELSE IF d.block.Type = T_CERTIFICATE
        THEN <<d.block.Bytes>> \o CertificateBlocks(d.rest)
        ELSE CertificateBlocks(d.rest)

\* the types of the blocks the first loop of X509KeyPair skips, in order
RECURSIVE SkippedCertTypes(_)
SkippedCertTypes(data) ==
    LET d == pemDecode(data)
    IN  IF d.block = NilBlock THEN <<>>
        ELSE IF d.block.Type = T_CERTIFICATE THEN SkippedCertTypes(d.rest)
        ELSE <<d.block.Type>> \o SkippedCertTypes(d.rest)

\* the types of the blocks the second loop of X509KeyPair skips, in order:
\* those ahead of the first block with a private-key type
RECURSIVE SkippedKeyTypes(_)
SkippedKeyTypes(data) ==
    LET d == pemDecode(data)
    IN  IF d.block = NilBlock THEN <<>>
        ELSE IF IsPrivateKeyType(d.block.Type) THEN <<>>
        ELSE <<d.block.Type>> \o SkippedKeyTypes(d.rest)

\* the first block with a private-key type (the second loop of X509KeyPair)
RECURSIVE FirstKeyBlock(_)
FirstKeyBlock(data) ==
    LET d == pemDecode(data)
    IN  IF d.block = NilBlock THEN NilBlock
        ELSE IF IsPrivateKeyType(d.block.Type) THEN d.block
        ELSE FirstKeyBlock(d.rest)

\* a tls.Certificate: the chain (DER of each certificate, leaf first) and the
\* private key
NoCertificate == [Certificate |-> <<>>, PrivateKey |-> ""]

\* tls.X509KeyPair after its two loops: chain and skippedCert are what the
\* first loop collected, keyDERBlock and skippedKey what the second did
keyPairOf(chain, skippedCert, keyDERBlock, skippedKey) ==
    LET fail(m) == [cert |-> NoCertificate, err |-> Error(m)]
    IN  IF Len(chain) = 0
        THEN IF Len(skippedCert) = 0
             THEN fail("tls: failed to find any PEM data in certificate input")
             ELSE IF Len(skippedCert) = 1 /\ HasSuffix(skippedCert[1], T_PRIVATE_KEY)
             THEN fail("tls: failed to find certificate PEM data in certificate input, but did find a private key; PEM inputs may have been switched")
             ELSE fail("tls: failed to find \"CERTIFICATE\" PEM block in certificate input after skipping PEM blocks of the following types: %v")
        ELSE IF keyDERBlock = NilBlock
        THEN IF Len(skippedKey) = 0
             THEN fail("tls: failed to find any PEM data in key input")
             ELSE IF Len(skippedKey) = 1 /\ skippedKey[1] = T_CERTIFICATE
             THEN fail("tls: found a certificate rather than a key in the PEM for the private key")
             ELSE fail("tls: failed to find PEM block with type ending in \"PRIVATE KEY\" in key input after skipping PEM blocks of the following types: %v")
        ELSE IF ~ParsesAsCertificate(chain[1])
        THEN fail("x509: malformed certificate")
        ELSE IF ~ParsesAsPrivateKey(keyDERBlock.Bytes)
        THEN fail("tls: failed to parse private key")
        ELSE IF chain[1].key # keyDERBlock.Bytes.key
        THEN fail("tls: private key does not match public key")
        ELSE [cert |-> [Certificate |-> chain, PrivateKey |-> keyDERBlock.Bytes.key],
              err |-> NoErr]

\* tls.X509KeyPair: [cert, err]
X509KeyPair(certPEMBlock, keyPEMBlock) ==
    keyPairOf(CertificateBlocks(certPEMBlock), SkippedCertTypes(certPEMBlock),
              FirstKeyBlock(keyPEMBlock), SkippedKeyTypes(keyPEMBlock))

\* a *x509.CertPool: nil, or the set of its certificates
NilCertPool == [isNil |-> TRUE, certs |-> {}]

NewCertPool == [isNil |-> FALSE, certs |-> {}]

\* CertPool.AppendCertsFromPEM: every CERTIFICATE block without headers
\* that parses is added; ok when at least one was.  [pool, ok]
RECURSIVE AppendCertsFromPEM(_, _, _)
AppendCertsFromPEM(pool, pemCerts, ok) ==
    LET d == pemDecode(pemCerts)
    IN  IF d.block = NilBlock THEN [pool |-> pool, ok |-> ok]
        ELSE IF d.block.Type # T_CERTIFICATE \/ d.block.Headers # {}
        THEN AppendCertsFromPEM(pool, d.rest, ok)
        ELSE IF ~ParsesAsCertificate(d.block.Bytes)
        THEN AppendCertsFromPEM(pool, d.rest, ok)
        ELSE AppendCertsFromPEM([pool EXCEPT !.certs = @ \cup {d.block.Bytes}], d.rest, TRUE)

\* the zero tls.Config, with the fields tls.go sets
ZeroConfig ==
    [Certificates |-> <<>>,
     NameToCertificate |-> {},
     ClientAuth |-> NoClientCert,
     ClientCAs |-> NilCertPool,
     RootCAs |-> NilCertPool,
     InsecureSkipVerify |-> FALSE,
     PreferServerCipherSuites |-> FALSE,
     MinVersion |-> 0,
     CurvePreferences |-> <<>>,
     CipherSuites |-> <<>>]

\* the names BuildNameToCertificate files a leaf under: its DNS names, or its
\* common name when it has no DNS name
LeafNames(der) ==
    IF der.names = {} /\ der.subject.CN # "" THEN {der.subject.CN} ELSE der.names

\* tls.Config.BuildNameToCertificate: the names of each certificate's leaf
BuildNameToCertificate(c) ==
    [c EXCEPT !.NameToCertificate =
        UNION { LeafNames(c.Certificates[i].Certificate[1]) : i \in
                  { j \in 1..Len(c.Certificates) :
                      ParsesAsCertificate(c.Certificates[j].Certificate[1]) } }]

(***************************************************************************)
(* The files.  ioutil.ReadFile gives the content of a file that exists and *)
(* an error for any other path.                                            *)
(***************************************************************************)
\* the subject generateCA gives every CA, and the one generateCert gives every
\* certificate it signs
CAName == [O |-> "ORGANIZATION_NAME", CN |-> ""]

LeafName == [O |-> "ORGANIZATION_NAME", CN |-> "localhost"]

ServerCertDER == CertDER(LeafName, {"localhost"}, "serverKey", CAName, "caKey")

\* generateCA: IsCA and BasicConstraintsValid are set
CACertDER == [CertDER(CAName, {}, "caKey", CAName, "caKey") EXCEPT !.isCA = TRUE]

ClientCertDER == CertDER(LeafName, {"localhost"}, "clientKey", CAName, "caKey")

\* the client certificate of another bundle: its CA is not the one of ca.crt
OtherCertDER == CertDER(LeafName, {"localhost"}, "otherKey", CAName, "otherCAKey")

\* a certificate whose issuer has another name than the CAs of the bundles
ForeignCertDER ==
    CertDER(LeafName, {"localhost"}, "otherKey", [O |-> "X", CN |-> ""], "foreignCAKey")

\* an initialisation vector of 16 bytes, in hex
HexIV ==
    <<"0","1","2","3","4","5","6","7","8","9","a","b","c","d","e","f","0","1","2","3","4","5","6","7","8","9","A","B","C","D","E","F">>

DEKInfo == <<"DEK-Info", <<"AES-256-CBC", HexIV>> >>

ProcType == <<"Proc-Type", <<"4", "ENCRYPTED">> >>

Files ==
    [p \in {"server.crt", "server.key", "enc.key", "enc2.key", "other.key",
            "ca.crt", "bundle.pem", "notes.txt",
            "client.crt", "client.key", "other.crt", "chain.pem",
            "serverchain.pem"} |->
        CASE p = "server.crt" -> << Block(T_CERTIFICATE, {}, ServerCertDER) >>
          [] p = "server.key" -> << Block(T_RSA_PRIVATE_KEY, {}, KeyDER("serverKey")) >>
          [] p = "enc.key"    -> << Block(T_RSA_PRIVATE_KEY, {ProcType, DEKInfo},
                                          EncryptedDER("serverKey", "secret", {})) >>
          [] p = "enc2.key"   -> << Block(T_RSA_PRIVATE_KEY, {ProcType, DEKInfo},
                                          EncryptedDER("serverKey", "secret", {"wrong"})) >>
          [] p = "other.key"  -> << Block(T_RSA_PRIVATE_KEY, {}, KeyDER("otherKey")) >>
          [] p = "ca.crt"     -> << Text, Block(T_CERTIFICATE, {}, CACertDER) >>
          [] p = "bundle.pem" -> << Text, Block(T_CERTIFICATE, {}, ServerCertDER),
                                    Block(T_CERTIFICATE, {}, CACertDER),
                                    Block(T_RSA_PRIVATE_KEY, {}, KeyDER("serverKey")) >>
          [] p = "notes.txt"  -> << Text >>
          [] p = "client.crt" -> << Block(T_CERTIFICATE, {}, ClientCertDER) >>
          [] p = "client.key" -> << Block(T_RSA_PRIVATE_KEY, {}, KeyDER("clientKey")) >>
          [] p = "other.crt"  -> << Block(T_CERTIFICATE, {}, OtherCertDER) >>
          [] p = "serverchain.pem" ->
                                 << Block(T_CERTIFICATE, {}, ServerCertDER),
                                    Block(T_CERTIFICATE, {}, NoiseDER) >>
          [] p = "chain.pem"  -> << Block(T_CERTIFICATE, {}, ForeignCertDER),
                                    Block(T_CERTIFICATE, {}, NoiseDER),
                                    Block(T_CERTIFICATE, {}, ClientCertDER) >>]

ReadFile(path) ==
    IF path \in DOMAIN Files
    THEN [data |-> Files[path], err |-> NoErr]
    ELSE [data |-> <<>>, err |-> PathError(path)]

(***************************************************************************)
(* The configuration value the builders take (config.Config): the listener *)
(* options conf.Proxy.TLS and the client options conf.Kafka.TLS.           *)
(***************************************************************************)
ZeroConf ==
    [Proxy |-> [TLS |-> [ListenerCertFile |-> "",
                         ListenerKeyFile |-> "",
                         ListenerKeyPassword |-> "",
                         CAChainCertFile |-> "",
                         ListenerCipherSuites |-> <<>>,
                         ListenerCurvePreferences |-> <<>>]],
     Kafka |-> [TLS |-> [ClientCertFile |-> "",
                         ClientKeyFile |-> "",
                         ClientKeyPassword |-> "",
                         CAChainCertFile |-> "",
                         InsecureSkipVerify |-> FALSE]]]

(***************************************************************************)
(* What a builder returns: a tls.Config pointer and an error, and the      *)
(* paths it passed to ioutil.ReadFile on the way, in order.                *)
(***************************************************************************)
ReturnNil(e, rd) == [isNil |-> TRUE, cfg |-> ZeroConfig, err |-> e, reads |-> rd]

ReturnCfg(c, rd) == [isNil |-> FALSE, cfg |-> c, err |-> NoErr, reads |-> rd]

(***************************************************************************)
(* newTLSListenerConfig                                                    *)
(***************************************************************************)
\* mutant: the guard fires only when both paths are empty
listenerFilesEmpty_Both(opts) ==
    opts.ListenerKeyFile = "" /\ opts.ListenerCertFile = ""

\* the guard on the two required paths
listenerFilesEmpty(opts) ==
    opts.ListenerKeyFile = "" \/ opts.ListenerCertFile = ""

\* read certificate and key, decrypt the key, combine: [cert, err, reads]
listenerKeyPair(opts) ==
    LET certPEMBlock == ReadFile(opts.ListenerCertFile)
        rd1 == <<opts.ListenerCertFile>>
        keyPEMBlock == ReadFile(opts.ListenerKeyFile)
        rd2 == Append(rd1, opts.ListenerKeyFile)
        decrypted == decryptPEM(keyPEMBlock.data, opts.ListenerKeyPassword)
        pair == X509KeyPair(certPEMBlock.data, decrypted.data)
        fail(e, rd) == [cert |-> NoCertificate, err |-> e, reads |-> rd]
    IN  IF certPEMBlock.err # NoErr THEN fail(certPEMBlock.err, rd1)
        ELSE IF keyPEMBlock.err # NoErr THEN fail(keyPEMBlock.err, rd2)
        ELSE IF decrypted.err # NoErr THEN fail(decrypted.err, rd2)
        ELSE IF pair.err # NoErr THEN fail(pair.err, rd2)
        ELSE [cert |-> pair.cert, err |-> NoErr, reads |-> rd2]

\* the settings literal
listenerConfig(cert, curvePreferences, cipherSuites) ==
    [ZeroConfig EXCEPT !.Certificates = <<cert>>,
                       !.ClientAuth = NoClientCert,
                       !.PreferServerCipherSuites = TRUE,
                       !.MinVersion = VersionTLS12,
                       !.CurvePreferences = curvePreferences,
                       !.CipherSuites = cipherSuites]

\* mutant: the pool is set and the client-authentication mode is left as it was
listenerClientCAs_ModeUnchanged(cfg, opts, reads) ==
    IF opts.CAChainCertFile # ""
    THEN LET caCertPEMBlock == ReadFile(opts.CAChainCertFile)
             rd == Append(reads, opts.CAChainCertFile)
             appended == AppendCertsFromPEM(NewCertPool, caCertPEMBlock.data, FALSE)
         IN  IF caCertPEMBlock.err # NoErr THEN ReturnNil(caCertPEMBlock.err, rd)
             ELSE IF ~appended.ok
             THEN ReturnNil(Error("Failed to parse listener root certificate"), rd)
             ELSE ReturnCfg([cfg EXCEPT !.ClientCAs = appended.pool], rd)
    ELSE ReturnCfg(cfg, reads)

\* the CA-chain block and the return
listenerClientCAs(cfg, opts, reads) ==
    IF opts.CAChainCertFile # ""
    THEN LET caCertPEMBlock == ReadFile(opts.CAChainCertFile)
             rd == Append(reads, opts.CAChainCertFile)
             appended == AppendCertsFromPEM(NewCertPool, caCertPEMBlock.data, FALSE)
         IN  IF caCertPEMBlock.err # NoErr THEN ReturnNil(caCertPEMBlock.err, rd)
             ELSE IF ~appended.ok
             THEN ReturnNil(Error("Failed to parse listener root certificate"), rd)
             ELSE ReturnCfg([cfg EXCEPT !.ClientCAs = appended.pool,
                                        !.ClientAuth = RequireAndVerifyClientCert], rd)
    ELSE ReturnCfg(cfg, reads)

newTLSListenerConfig(conf) ==
    LET opts == conf.Proxy.TLS
        pair == listenerKeyPair(opts)
        cipherSuites == getCipherSuites(opts.ListenerCipherSuites)
        curvePreferences == getCurvePreferences(opts.ListenerCurvePreferences)
    IN  IF listenerFilesEmpty(opts)
        THEN ReturnNil(Error("Listener key and cert files must not be empty"), <<>>)
        ELSE IF pair.err # NoErr THEN ReturnNil(pair.err, pair.reads)
        ELSE IF cipherSuites.err # NoErr THEN ReturnNil(cipherSuites.err, pair.reads)
        ELSE IF curvePreferences.err # NoErr THEN ReturnNil(curvePreferences.err, pair.reads)
        ELSE listenerClientCAs(listenerConfig(pair.cert, curvePreferences.ids,
                                              cipherSuites.ids),
                               opts, pair.reads)

(***************************************************************************)
(* newTLSClientConfig                                                      *)
(***************************************************************************)
\* mutant: verification is skipped whatever the flag says
clientConfig_AlwaysSkip(opts) ==
    [ZeroConfig EXCEPT !.InsecureSkipVerify = TRUE]

\* the settings literal
clientConfig(opts) ==
    [ZeroConfig EXCEPT !.InsecureSkipVerify = opts.InsecureSkipVerify]

\* mutant: the client identity is loaded when either path is set
clientFilesSet_Either(opts) ==
    opts.ClientCertFile # "" \/ opts.ClientKeyFile # ""

\* the client identity is loaded when both paths are set
clientFilesSet(opts) ==
    opts.ClientCertFile # "" /\ opts.ClientKeyFile # ""

\* read certificate and key, decrypt the key, combine: [cert, err, reads]
clientKeyPair(opts) ==
    LET certPEMBlock == ReadFile(opts.ClientCertFile)
        rd1 == <<opts.ClientCertFile>>
        keyPEMBlock == ReadFile(opts.ClientKeyFile)
        rd2 == Append(rd1, opts.ClientKeyFile)
        decrypted == decryptPEM(keyPEMBlock.data, opts.ClientKeyPassword)
        pair == X509KeyPair(certPEMBlock.data, decrypted.data)
        fail(e, rd) == [cert |-> NoCertificate, err |-> e, reads |-> rd]
    IN  IF certPEMBlock.err # NoErr THEN fail(certPEMBlock.err, rd1)
        ELSE IF keyPEMBlock.err # NoErr THEN fail(keyPEMBlock.err, rd2)
        ELSE IF decrypted.err # NoErr THEN fail(decrypted.err, rd2)
        ELSE IF pair.err # NoErr THEN fail(pair.err, rd2)
        ELSE [cert |-> pair.cert, err |-> NoErr, reads |-> rd2]

\* mutant: a CA chain without a certificate leaves the settings as they are
clientRootCAs_FallsBack(cfg, opts, reads) ==
    IF opts.CAChainCertFile # ""
    THEN LET caCertPEMBlock == ReadFile(opts.CAChainCertFile)
             rd == Append(reads, opts.CAChainCertFile)
             appended == AppendCertsFromPEM(NewCertPool, caCertPEMBlock.data, FALSE)
         IN  IF caCertPEMBlock.err # NoErr THEN ReturnNil(caCertPEMBlock.err, rd)
             ELSE IF ~appended.ok
             THEN ReturnCfg(cfg, rd)
             ELSE ReturnCfg([cfg EXCEPT !.RootCAs = appended.pool], rd)
    ELSE ReturnCfg(cfg, reads)

\* the CA-chain block and the return
clientRootCAs(cfg, opts, reads) ==
    IF opts.CAChainCertFile # ""
    THEN LET caCertPEMBlock == ReadFile(opts.CAChainCertFile)
             rd == Append(reads, opts.CAChainCertFile)
             appended == AppendCertsFromPEM(NewCertPool, caCertPEMBlock.data, FALSE)
         IN  IF caCertPEMBlock.err # NoErr THEN ReturnNil(caCertPEMBlock.err, rd)
             ELSE IF ~appended.ok
             THEN ReturnNil(Error("Failed to parse client root certificate"), rd)
             ELSE ReturnCfg([cfg EXCEPT !.RootCAs = appended.pool], rd)
    ELSE ReturnCfg(cfg, reads)

\* the settings with the client identity, cfg.Certificates and
\* cfg.BuildNameToCertificate(), then the CA-chain block
clientWithKeyPair(cfg, opts, pair) ==
    IF pair.err # NoErr THEN ReturnNil(pair.err, pair.reads)
    ELSE clientRootCAs(
             BuildNameToCertificate([cfg EXCEPT !.Certificates = <<pair.cert>>]),
             opts, pair.reads)

newTLSClientConfig(conf) ==
    IF clientFilesSet(conf.Kafka.TLS)
    THEN clientWithKeyPair(clientConfig(conf.Kafka.TLS), conf.Kafka.TLS,
                           clientKeyPair(conf.Kafka.TLS))
    ELSE clientRootCAs(clientConfig(conf.Kafka.TLS), conf.Kafka.TLS, <<>>)

(***************************************************************************)
(* Inputs.                                                                 *)
(***************************************************************************)
SeqsUpTo(S, n) == UNION { [1..k -> S] : k \in 0..n }

S_rsa_aes128_cbc_sha ==
    <<"r","s","a","-","a","e","s","1","2","8","-","c","b","c","-","s","h","a">>
S_BOGUS ==
    <<"B","O","G","U","S">>
S_p384 ==
    <<"p","3","8","4">>
S_P_256 ==
    <<"P","-","2","5","6">>

\* names configured for cipher suites: two of the default set, one outside it
\* and padded with white space, one in lower case, one unknown and padded,
\* one of white space only
CipherNameInputs ==
    { S_ECDHE_RSA_AES128_GCM_SHA256,
      S_ECDHE_ECDSA_WITH_CHACHA20_POLY1305,
      <<" ">> \o S_RSA_AES128_CBC_SHA \o <<"\t">>,
      S_rsa_aes128_cbc_sha,
      <<NextLine>> \o S_BOGUS,
      <<" ">> }

\* names configured for curves: the two defaults (one padded), one outside
\* them, one in lower case, one unknown and padded, one behind a letter
\* that is no white space (U+00E9), the empty string
CurveNameInputs ==
    { S_P256,
      <<"\n", VerticalTab>> \o S_X25519 \o <<NoBreakSpace>>,
      S_P521,
      S_p384,
      S_P_256 \o <<" ">>,
      <<"U+00E9">> \o S_P256,
      <<>> }

Passwords == {"", "secret", "wrong"}

CertPaths == {"", "server.crt", "bundle.pem", "notes.txt", "missing.pem"}

KeyPaths == {"", "server.key", "enc.key", "enc2.key", "other.key", "bundle.pem",
             "missing.pem"}

CAPaths == {"", "ca.crt", "server.key", "missing.pem"}

\* PEM data handed to decryptPEM: the files, no data, an encrypted block
\* behind leading text and ahead of another block, encrypted blocks whose
\* DEK-Info has no comma, an unknown mode, an empty vector or a second comma,
\* and a plaintext key under a DEK-Info header
PEMInputs ==
    { Files[p] : p \in DOMAIN Files } \cup
    { <<>>,
      << Text, Block(T_RSA_PRIVATE_KEY, {ProcType, DEKInfo},
                     EncryptedDER("otherKey", "secret", {})),
         Block(T_CERTIFICATE, {}, CACertDER) >>,
      << Block(T_RSA_PRIVATE_KEY, {<<"DEK-Info", <<"AES-256-CBC">> >>},
               EncryptedDER("serverKey", "secret", {})) >>,
      << Block(T_RSA_PRIVATE_KEY, {<<"DEK-Info", <<"RC4", HexIV>> >>},
               EncryptedDER("serverKey", "secret", {})) >>,
      << Block(T_RSA_PRIVATE_KEY, {<<"DEK-Info", <<"AES-256-CBC", <<>> >> >>},
               EncryptedDER("serverKey", "secret", {})) >>,
      << Block(T_RSA_PRIVATE_KEY, {<<"DEK-Info", <<"AES-256-CBC", HexIV, <<"0","0">> >> >>},
               EncryptedDER("serverKey", "secret", {"wrong"})) >>,
      << Block(T_RSA_PRIVATE_KEY, {DEKInfo}, KeyDER("serverKey")) >> }

(***************************************************************************)
(* The TLS handshake between a dialer with the settings clientCfg and a    *)
(* listener with the settings serverCfg, as crypto/tls runs it for the     *)
(* certificates of the test bundle (RSA keys, localhost and 127.0.0.1 as   *)
(* names, client and server authentication as key usages) and for settings *)
(* with the default cipher suites and curves.  A certificate is verified   *)
(* against a pool by its issuer.  The test CAs are not system roots.       *)
(***************************************************************************)
\* CheckSignatureFrom, for a parent found by its name: the parent is a CA,
\* has the issuer's name as its subject, and its key made the signature
IssuedBy(cert, ca) ==
    ca.isCA /\ cert.issuer = ca.subject /\ cert.signer = ca.key

\* buildChains: a root issued the certificate, or an intermediate did that
\* chains to a root itself
RECURSIVE ChainsTo(_, _, _)
ChainsTo(cert, roots, intermediates) ==
    \/ \E ca \in roots : IssuedBy(cert, ca)
    \/ \E ca \in intermediates :
          IssuedBy(cert, ca) /\ ChainsTo(ca, roots, intermediates \ {ca})

\* a peer's chain is verified against a pool: every certificate of the chain
\* parses; the leaf is in the pool itself, or it chains to a certificate of
\* the pool, through the rest of the chain as intermediates
Verify(chain, pool) ==
    /\ chain # <<>>
    /\ \A i \in 1..Len(chain) : ParsesAsCertificate(chain[i])
    /\ \/ chain[1] \in pool.certs
       \/ ChainsTo(chain[1], pool.certs, { chain[i] : i \in 2..Len(chain) })

\* the names of the certificate request: the subjects of the listener's CAs
AcceptableCAs(serverCfg) == { ca.subject : ca \in serverCfg.ClientCAs.certs }

\* CertificateRequestInfo.SupportsCertificate: the request names no CA, or
\* the loop over the chain comes to a certificate with one of the names as
\* its issuer before it comes to one that does not parse
SupportsCertificate(chain, serverCfg) ==
    \/ AcceptableCAs(serverCfg) = {}
    \/ \E i \in 1..Len(chain) :
          /\ \A j \in 1..i : ParsesAsCertificate(chain[j])
          /\ chain[i].issuer \in AcceptableCAs(serverCfg)

\* the listener sends a certificate request
RequestsClientCert(serverCfg) == serverCfg.ClientAuth # NoClientCert

\* the chain the dialer answers a certificate request with: the first of
\* its certificates that the request supports, chosen by the name of the
\* issuer, or none
ClientSends(clientCfg, serverCfg) ==
    IF /\ RequestsClientCert(serverCfg)
       /\ \E i \in 1..Len(clientCfg.Certificates) :
             SupportsCertificate(clientCfg.Certificates[i].Certificate, serverCfg)
    THEN clientCfg.Certificates[
             CHOOSE i \in 1..Len(clientCfg.Certificates) :
                /\ SupportsCertificate(clientCfg.Certificates[i].Certificate, serverCfg)
                /\ \A j \in 1..(i - 1) :
                      ~SupportsCertificate(clientCfg.Certificates[j].Certificate, serverCfg)
         ].Certificate
    ELSE <<>>

\* the listener is content with what the dialer sent
ServerAccepts(clientCfg, serverCfg) ==
    serverCfg.ClientAuth = RequireAndVerifyClientCert
        => /\ ClientSends(clientCfg, serverCfg) # <<>>
           /\ Verify(ClientSends(clientCfg, serverCfg), serverCfg.ClientCAs)

\* the dialer is content with the certificate of the listener: it parses
\* every certificate the listener sent ("tls: failed to parse certificate
\* from server" otherwise) and only then looks at InsecureSkipVerify; nil
\* RootCAs are the system roots, which hold no CA of the tests
ClientAccepts(clientCfg, serverCfg) ==
    /\ serverCfg.Certificates # <<>>
    /\ \A i \in 1..Len(serverCfg.Certificates[1].Certificate) :
          ParsesAsCertificate(serverCfg.Certificates[1].Certificate[i])
    /\ \/ clientCfg.InsecureSkipVerify
       \/ /\ ~clientCfg.RootCAs.isNil
          /\ Verify(serverCfg.Certificates[1].Certificate, clientCfg.RootCAs)

\* The outcome at both ends.  The dialer verifies first and aborts on a bad
\* listener certificate, before it answers the certificate request.  When the listener rejects the dialer, the dialer
\* learns it within its own handshake under TLS 1.2; under TLS 1.3
\* (tls13) the handshake of the dialer is complete before the listener has
\* verified, and only the listener fails.
Handshake(clientCfg, serverCfg, tls13) ==
    [ran |-> TRUE,
     requested |-> RequestsClientCert(serverCfg),
     sent |-> IF ClientAccepts(clientCfg, serverCfg)
              THEN ClientSends(clientCfg, serverCfg)
              ELSE <<>>,
     client |-> IF ~ClientAccepts(clientCfg, serverCfg) THEN "failed"
                ELSE IF ServerAccepts(clientCfg, serverCfg) \/ tls13 THEN "ok"
                ELSE "failed",
     server |-> IF /\ ClientAccepts(clientCfg, serverCfg)
                   /\ ServerAccepts(clientCfg, serverCfg)
                THEN "ok" ELSE "failed"]

(***************************************************************************)
(* The state: the call in progress, its arguments and what it returned.    *)
(***************************************************************************)
VARIABLES
    pc,         \* "idle", or "done" once the call has returned
    call,       \* the function called
    conf,       \* argument of the builders
    names,      \* argument of getCipherSuites / getCurvePreferences
    pemData,    \* argument of decryptPEM
    password,   \* argument of decryptPEM
    ret,        \* what the call returned
    heap,       \* the contents of the arrays behind the slices
    built,      \* the settings built so far, with the arrays of their lists
    writes,     \* the number of elements written through a settings object
    helper,     \* the dial-and-accept helper that was called, or "none"
    auth,       \* the proxy accepts the credentials the helper was given
    callerPc,   \* where the calling task is
    acceptPc,   \* where the task that accepts on the target is
    proxyPc,    \* where the task that runs the proxy is
    c0, c1, c2, \* the connection variables: "nil" or a socket
    err0, err1, err2,   \* the error variables: NoErr is nil
    acc,        \* what Accept returned to the accept task, before it is stored
    done,       \* the channel done is closed
    sockets,    \* every listener and connection: "none", "open" or "closed"
    pending,    \* the listeners with a connection not yet accepted
    clientCfg,  \* clientConfig of the helper
    serverCfg,  \* serverConfig of the helper
    hs,         \* the TLS handshake of the dial, once it ran
    result,     \* what the helper returned
    openAtReturn,   \* the sockets that were open when the helper returned
    faults,     \* the calls of a method on a nil connection
    races,      \* the reads of the caller with no signal from the writer
    crashed     \* a task panicked: the process is gone

callVars == <<pc, call, conf, names, pemData, password, ret>>

shareVars == <<heap, built, writes>>

pipeVars ==
    <<helper, auth, callerPc, acceptPc, proxyPc, c0, c1, c2, err0, err1, err2,
      acc, done, sockets, pending, clientCfg, serverCfg, hs, result, openAtReturn,
      faults, races, crashed>>

vars == <<pc, call, conf, names, pemData, password, ret, shareVars, pipeVars>>

\* listeners and connections: the target listener (ln), the proxy listener,
\* the socket of the dialer (behind c1), the socket the target accepted (c2)
\* and the socket the proxy accepted (c0)
Sockets == {"target", "proxy", "dialed", "accepted", "proxied"}

NoSockets == [r \in Sockets |-> "none"]

NoHandshake == [ran |-> FALSE, requested |-> FALSE, sent |-> <<>>,
                client |-> "none", server |-> "none"]

NoAccept == [c |-> "nil", err |-> NoErr]

NoResult == [c1 |-> "nil", c2 |-> "nil", stop |-> FALSE, err |-> NoErr]

\* no helper was called
PipeIdle ==
    /\ helper = "none"
    /\ auth = TRUE
    /\ callerPc = "none"
    /\ acceptPc = "none"
    /\ proxyPc = "none"
    /\ c0 = "nil" /\ c1 = "nil" /\ c2 = "nil"
    /\ err0 = NoErr /\ err1 = NoErr /\ err2 = NoErr
    /\ acc = NoAccept
    /\ done = FALSE
    /\ sockets = NoSockets
    /\ pending = {}
    /\ clientCfg = ZeroConfig
    /\ serverCfg = ZeroConfig
    /\ hs = NoHandshake
    /\ result = NoResult
    /\ openAtReturn = {}
    /\ faults = {}
    /\ races = {}
    /\ crashed = FALSE

MaxBuilt == 2

MaxWrites == 2

\* the arrays a build makes for its lists
MadeSuites(n) == [name |-> "suites", n |-> n]

MadeCurves(n) == [name |-> "curvePreferences", n |-> n]

\* the arrays: the two package-level default sets, and those the builds make
Arrays ==
    {DefaultCipherSuitesArray, DefaultCurvePreferencesArray}
        \cup { MadeSuites(n) : n \in 1..MaxBuilt }
        \cup { MadeCurves(n) : n \in 1..MaxBuilt }

InitialHeap ==
    [a \in Arrays |->
        IF a = DefaultCipherSuitesArray THEN defaultCipherSuites
        ELSE IF a = DefaultCurvePreferencesArray THEN defaultCurvePreferences
        ELSE <<>>]

NoRet == [isNil |-> TRUE, cfg |-> ZeroConfig, ids |-> <<>>, data |-> <<>>,
          err |-> NoErr, reads |-> <<>>]

Init ==
    /\ pc = "idle"
    /\ call = "none"
    /\ conf = ZeroConf
    /\ names = <<>>
    /\ pemData = <<>>
    /\ password = ""
    /\ ret = NoRet
    /\ heap = InitialHeap
    /\ built = <<>>
    /\ writes = 0
    /\ PipeIdle

CallNewTLSListenerConfig ==
    /\ pc = "idle"
    /\ \E cert \in CertPaths, key \in KeyPaths, pw \in Passwords, ca \in CAPaths :
       \E suites \in SeqsUpTo(CipherNameInputs, MaxConfNames) :
       \E curves \in SeqsUpTo(CurveNameInputs, MaxConfNames - Len(suites)) :
          LET c == [ZeroConf EXCEPT !.Proxy.TLS =
                       [ListenerCertFile |-> cert,
                        ListenerKeyFile |-> key,
                        ListenerKeyPassword |-> pw,
                        CAChainCertFile |-> ca,
                        ListenerCipherSuites |-> suites,
                        ListenerCurvePreferences |-> curves]]
              r == newTLSListenerConfig(c)
          IN  /\ conf' = c
              /\ ret' = [NoRet EXCEPT !.isNil = r.isNil, !.cfg = r.cfg,
                                      !.err = r.err, !.reads = r.reads]
    /\ call' = "newTLSListenerConfig"
    /\ pc' = "done"
    /\ UNCHANGED <<names, pemData, password>>
    /\ UNCHANGED <<shareVars, pipeVars>>

CallNewTLSClientConfig ==
    /\ pc = "idle"
    /\ \E cert \in CertPaths, key \in KeyPaths, pw \in Passwords, ca \in CAPaths,
          skip \in BOOLEAN :
          LET c == [ZeroConf EXCEPT !.Kafka.TLS =
                       [ClientCertFile |-> cert,
                        ClientKeyFile |-> key,
                        ClientKeyPassword |-> pw,
                        CAChainCertFile |-> ca,
                        InsecureSkipVerify |-> skip]]
              r == newTLSClientConfig(c)
          IN  /\ conf' = c
              /\ ret' = [NoRet EXCEPT !.isNil = r.isNil, !.cfg = r.cfg,
                                      !.err = r.err, !.reads = r.reads]
    /\ call' = "newTLSClientConfig"
    /\ pc' = "done"
    /\ UNCHANGED <<names, pemData, password>>
    /\ UNCHANGED <<shareVars, pipeVars>>

CallGetCipherSuites ==
    /\ pc = "idle"
    /\ \E enabled \in SeqsUpTo(CipherNameInputs, MaxNames) :
          LET r == getCipherSuites(enabled)
          IN  /\ names' = enabled
              /\ ret' = [NoRet EXCEPT !.ids = r.ids, !.err = r.err]
    /\ call' = "getCipherSuites"
    /\ pc' = "done"
    /\ UNCHANGED <<conf, pemData, password>>
    /\ UNCHANGED <<shareVars, pipeVars>>

CallGetCurvePreferences ==
    /\ pc = "idle"
    /\ \E enabled \in SeqsUpTo(CurveNameInputs, MaxNames) :
          LET r == getCurvePreferences(enabled)
          IN  /\ names' = enabled
              /\ ret' = [NoRet EXCEPT !.ids = r.ids, !.err = r.err]
    /\ call' = "getCurvePreferences"
    /\ pc' = "done"
    /\ UNCHANGED <<conf, pemData, password>>
    /\ UNCHANGED <<shareVars, pipeVars>>

CallDecryptPEM ==
    /\ pc = "idle"
    /\ \E d \in PEMInputs, pw \in Passwords :
          LET r == decryptPEM(d, pw)
          IN  /\ pemData' = d
              /\ password' = pw
              /\ ret' = [NoRet EXCEPT !.data = r.data, !.err = r.err]
    /\ call' = "decryptPEM"
    /\ pc' = "done"
    /\ UNCHANGED <<conf, names>>
    /\ UNCHANGED <<shareVars, pipeVars>>

\* the caller is done with the result and may call again
Return ==
    /\ pc = "done"
    /\ pc' = "idle"
    /\ call' = "none"
    /\ conf' = ZeroConf
    /\ names' = <<>>
    /\ pemData' = <<>>
    /\ password' = ""
    /\ ret' = NoRet
    /\ UNCHANGED <<shareVars, pipeVars>>

Next ==
    \/ CallNewTLSListenerConfig
    \/ CallNewTLSClientConfig
    \/ CallGetCipherSuites
    \/ CallGetCurvePreferences
    \/ CallDecryptPEM
    \/ Return

Spec == Init /\ [][Next]_vars

(***************************************************************************)
(* The dial-and-accept helpers of util_test.go.                            *)
(***************************************************************************)
Helpers ==
    {"makeTLSPipe", "makeTLSSocks5ProxyPipe", "makeTLSHttpProxyPipe",
     "makePipe", "makeSocks5ProxyPipe", "makeHttpProxyPipe"}

\* the helper listens with tls.Listen and dials with a tlsDialer
IsTLS(h) == h \in {"makeTLSPipe", "makeTLSSocks5ProxyPipe", "makeTLSHttpProxyPipe"}

ProxyKind(h) ==
    IF h \in {"makeTLSSocks5ProxyPipe", "makeSocks5ProxyPipe"} THEN "socks5"
    ELSE IF h \in {"makeTLSHttpProxyPipe", "makeHttpProxyPipe"} THEN "http"
    ELSE "none"

HasProxy(h) == ProxyKind(h) # "none"

\* the proxy task stores what it got in c0 and err0
ProxyTaskWritesErr0(h) ==
    h \in {"makeTLSSocks5ProxyPipe", "makeSocks5ProxyPipe", "makeHttpProxyPipe"}

\* the switch of the helper has a case for err0
SwitchReadsErr0(h) == h \in {"makeSocks5ProxyPipe", "makeHttpProxyPipe"}

\* the accept task returns on err2 before it reads from c2
AcceptTaskChecksErr2(h) == h \in {"makeTLSSocks5ProxyPipe", "makeTLSHttpProxyPipe"}

AcceptTimeout(h) == IF IsTLS(h) THEN "Accept timeout " ELSE "Accept timeout"

Listeners(h) == IF HasProxy(h) THEN {"target", "proxy"} ELSE {"target"}


DialError == Error("dial tcp: connect failed")

ProxyError == Error("proxy: negotiation failed")

HandshakeError == Error("tls: handshake failed")

AcceptError == Error("accept: use of closed network connection")

ServeError == Error("proxy: serve failed")

ListenError == Error("listen tcp: failed")

\* the configurations the TLS helpers are called with: the listener has the
\* server pair of the bundle, or its certificate ahead of one that does not
\* parse, and the CA chain or none; the client has no
\* pair, the client pair of the bundle, the pair of another bundle or a chain
\* that begins with a certificate of a foreign issuer, and trusts the CA of
\* the bundle, or the certificate of the listener itself, or nothing, or
\* skips the verification
PipeConfs ==
    { [ZeroConf EXCEPT
          !.Proxy.TLS.ListenerCertFile = lcert,
          !.Proxy.TLS.ListenerKeyFile = "server.key",
          !.Proxy.TLS.CAChainCertFile = lca,
          !.Kafka.TLS.ClientCertFile = pair[1],
          !.Kafka.TLS.ClientKeyFile = pair[2],
          !.Kafka.TLS.CAChainCertFile = trust[1],
          !.Kafka.TLS.InsecureSkipVerify = trust[2]] :
        lcert \in {"server.crt", "serverchain.pem"},
        lca \in {"", "ca.crt"},
        pair \in { <<"", "">>, <<"client.crt", "client.key">>, <<"other.crt", "other.key">>,
                   <<"chain.pem", "other.key">> },
        trust \in { <<"ca.crt", FALSE>>, <<"server.crt", FALSE>>, <<"", FALSE>>,
                    <<"", TRUE>> } }

Close(socks, r) == [socks EXCEPT ![r] = "closed"]

OpenIn(socks) == { r \in Sockets : socks[r] = "open" }

\* mutant: stop leaves the proxy listener open
Stop_KeepsProxy(h, e1, v1, e2, v2, socks) ==
    LET first == IF e1 = NoErr /\ v1 # "nil" THEN Close(socks, v1) ELSE socks
        second == IF e2 = NoErr /\ v2 # "nil" THEN Close(first, v2) ELSE first
        third == Close(second, "target")
    IN  IF e1 = NoErr /\ v1 = "nil"
        THEN [sockets |-> socks, fault |-> "Close on nil c1"]
        ELSE IF e2 = NoErr /\ v2 = "nil"
        THEN [sockets |-> first, fault |-> "Close on nil c2"]
        ELSE [sockets |-> third, fault |-> ""]

\* stop: e1 and v1 are err1 and c1, e2 and v2 are what it reads in err2 and
\* c2.  A Close on a nil connection panics, and the rest does not run.
Stop(h, e1, v1, e2, v2, socks) ==
    LET first == IF e1 = NoErr /\ v1 # "nil" THEN Close(socks, v1) ELSE socks
        second == IF e2 = NoErr /\ v2 # "nil" THEN Close(first, v2) ELSE first
        third == Close(second, "target")
        last == IF HasProxy(h) THEN Close(third, "proxy") ELSE third
    IN  IF e1 = NoErr /\ v1 = "nil"
        THEN [sockets |-> socks, fault |-> "Close on nil c1"]
        ELSE IF e2 = NoErr /\ v2 = "nil"
        THEN [sockets |-> first, fault |-> "Close on nil c2"]
        ELSE [sockets |-> last, fault |-> ""]

\* return nil, nil, nil, e: the named results c1 and c2 are set to nil
ReturnError(e, socks) ==
    /\ callerPc' = "returned"
    /\ result' = [c1 |-> "nil", c2 |-> "nil", stop |-> FALSE, err |-> e]
    /\ c1' = "nil"
    /\ c2' = "nil"
    /\ sockets' = socks
    /\ openAtReturn' = OpenIn(socks)

\* stop(); return nil, nil, nil, e
StopThenReturn(e, e2, v2) ==
    LET st == Stop(helper, err1, c1, e2, v2, sockets)
    IN  IF st.fault # ""
        THEN /\ callerPc' = "panicked"
             /\ crashed' = TRUE
             /\ faults' = faults \cup {st.fault}
             /\ sockets' = st.sockets
             /\ UNCHANGED <<result, c1, c2, openAtReturn>>
        ELSE /\ ReturnError(e, st.sockets)
             /\ UNCHANGED <<crashed, faults>>

\* The helper up to its dial: it builds the settings (the TLS helpers),
\* listens (listen tells which Listen fails, if one does) and starts its
\* tasks.  cr and sr are what the builders returned.
Setup(h, c, a, listen, cr, sr) ==
    /\ helper' = h
    /\ conf' = c
    /\ auth' = a
    /\ IF cr.isNil \/ sr.isNil \/ listen # "ok"
       THEN /\ ReturnError(IF cr.isNil THEN cr.err
                           ELSE IF sr.isNil THEN sr.err
                           ELSE ListenError,
                           IF ~cr.isNil /\ ~sr.isNil /\ listen = "target" /\ HasProxy(h)
                           THEN Close(NoSockets, "proxy")
                           ELSE NoSockets)
            /\ UNCHANGED <<acceptPc, proxyPc, clientCfg, serverCfg>>
       ELSE /\ callerPc' = "dial"
            /\ acceptPc' = "accept"
            /\ proxyPc' = IF HasProxy(h) THEN "accept" ELSE "none"
            /\ clientCfg' = cr.cfg
            /\ serverCfg' = sr.cfg
            /\ sockets' = [r \in Sockets |-> IF r \in Listeners(h) THEN "open" ELSE "none"]
            /\ UNCHANGED <<c1, c2, result, openAtReturn>>
    /\ UNCHANGED <<c0, err0, err1, err2, acc, done, pending, hs, faults, races, crashed>>
    /\ UNCHANGED <<pc, call, names, pemData, password, ret, shareVars>>

NotBuilt == ReturnCfg(ZeroConfig, <<>>)

CallMakePipe ==
    /\ helper = "none"
    /\ \E h \in Helpers, c \in PipeConfs \cup {ZeroConf}, a \in BOOLEAN,
          listen \in {"ok", "proxy", "target"} :
          /\ IsTLS(h) \/ c = ZeroConf
          /\ HasProxy(h) \/ listen # "proxy"
          /\ (HasProxy(h) /\ IsTLS(h)) \/ a
          /\ Setup(h, c, a, listen,
                   IF IsTLS(h) THEN newTLSClientConfig(c) ELSE NotBuilt,
                   IF IsTLS(h) THEN newTLSListenerConfig(c) ELSE NotBuilt)

\* Dial, first step: the direct dialer connects to the target, or to the
\* proxy when the helper dials through one; the connect may fail
DialConnect ==
    /\ ~crashed
    /\ callerPc = "dial"
    /\ \E ok \in BOOLEAN :
          IF ok
          THEN /\ sockets' = [sockets EXCEPT !["dialed"] = "open"]
               /\ pending' = pending \cup {IF HasProxy(helper) THEN "proxy" ELSE "target"}
               /\ callerPc' = IF HasProxy(helper) THEN "negotiate"
                              ELSE IF IsTLS(helper) THEN "handshake"
                              ELSE "dialed"
               /\ c1' = IF HasProxy(helper) \/ IsTLS(helper) THEN c1 ELSE "dialed"
               /\ UNCHANGED err1
          ELSE /\ err1' = DialError
               /\ callerPc' = "dialed"
               /\ UNCHANGED <<sockets, pending, c1>>
    /\ UNCHANGED <<acc, pc, call, conf, names, pemData, password, ret, heap,
                 built, writes, helper, auth, acceptPc, proxyPc, c0,
                 c2, err0, err2, done, clientCfg, serverCfg, hs,
                 result, openAtReturn, faults, races, crashed>>

\* Dial through a proxy, second step: the dialer and the proxy negotiate.
\* With good credentials the proxy connects to the target; with bad ones it
\* refuses, and both ends close their socket.
ProxyNegotiate ==
    /\ ~crashed
    /\ callerPc = "negotiate"
    /\ proxyPc = "serve"
    /\ IF auth /\ sockets["target"] = "open"
       THEN /\ pending' = pending \cup {"target"}
            /\ proxyPc' = "tunnel"
            /\ callerPc' = IF IsTLS(helper) THEN "handshake" ELSE "dialed"
            /\ c1' = IF IsTLS(helper) THEN c1 ELSE "dialed"
            /\ UNCHANGED <<sockets, err1>>
       ELSE /\ sockets' = Close(Close(sockets, "dialed"), "proxied")
            /\ proxyPc' = "failed"
            /\ callerPc' = "dialed"
            /\ err1' = ProxyError
            /\ UNCHANGED <<pending, c1>>
    /\ UNCHANGED <<acc, pc, call, conf, names, pemData, password, ret, heap,
                 built, writes, helper, auth, acceptPc, c0, c2, err0,
                 err2, done, clientCfg, serverCfg, hs, result,
                 openAtReturn, faults, races, crashed>>

\* the negotiation is bounded: the dialer gives up and closes its socket
NegotiateTimeout ==
    /\ ~crashed
    /\ callerPc = "negotiate"
    /\ sockets' = Close(sockets, "dialed")
    /\ callerPc' = "dialed"
    /\ err1' = ProxyError
    /\ UNCHANGED <<acc, pc, call, conf, names, pemData, password, ret, heap,
                 built, writes, helper, auth, acceptPc, proxyPc, c0,
                 c1, c2, err0, err2, done, pending, clientCfg,
                 serverCfg, hs, result, openAtReturn, faults, races,
                 crashed>>

\* tlsDialer.Dial, last step, and c2.Read of the accept task: the two ends
\* run the handshake.  A dialer whose handshake fails closes its socket.
TLSHandshake ==
    /\ ~crashed
    /\ callerPc = "handshake"
    /\ acceptPc = "reading"
    /\ \E tls13 \in BOOLEAN :
          /\ hs' = Handshake(clientCfg, serverCfg, tls13)
          /\ IF hs'.client = "ok"
             THEN /\ c1' = "dialed"
                  /\ UNCHANGED <<err1, sockets>>
             ELSE /\ err1' = HandshakeError
                  /\ sockets' = Close(sockets, "dialed")
                  /\ UNCHANGED c1
    /\ callerPc' = "dialed"
    /\ acceptPc' = "end"
    /\ UNCHANGED <<acc, pc, call, conf, names, pemData, password, ret, heap,
                 built, writes, helper, auth, proxyPc, c0, c2, err0,
                 err2, done, pending, clientCfg, serverCfg, result,
                 openAtReturn, faults, races, crashed>>

\* the handshake timeout of the tlsDialer: it closes its socket
HandshakeTimeout ==
    /\ ~crashed
    /\ callerPc = "handshake"
    /\ err1' = HandshakeError
    /\ sockets' = Close(sockets, "dialed")
    /\ callerPc' = "dialed"
    /\ UNCHANGED <<acc, pc, call, conf, names, pemData, password, ret, heap,
                 built, writes, helper, auth, acceptPc, proxyPc, c0,
                 c1, c2, err0, err2, done, pending, clientCfg,
                 serverCfg, hs, result, openAtReturn, faults, races,
                 crashed>>

\* after the dial: the TLS helpers close the target listener and return when
\* the dial failed; every helper goes on to the select otherwise
CheckDial ==
    /\ ~crashed
    /\ callerPc = "dialed"
    /\ IF IsTLS(helper) /\ err1 # NoErr
       THEN ReturnError(err1, Close(sockets, "target"))
       ELSE /\ callerPc' = "select"
            /\ UNCHANGED <<result, c1, c2, sockets, openAtReturn>>
    /\ UNCHANGED <<acc, pc, call, conf, names, pemData, password, ret, heap,
                 built, writes, helper, auth, acceptPc, proxyPc, c0,
                 err0, err1, err2, done, pending, clientCfg,
                 serverCfg, hs, faults, races, crashed>>

\* select, case done, and the switch after it.  The case for err0 reads a
\* variable that the proxy task writes with no signal: the read sees the
\* value written last or the one before any write.
SelectDone ==
    /\ ~crashed
    /\ callerPc = "select"
    /\ done
    /\ \E e0 \in IF SwitchReadsErr0(helper) THEN {NoErr, err0} ELSE {NoErr} :
          IF e0 # NoErr THEN StopThenReturn(e0, err2, c2)
          ELSE IF err1 # NoErr THEN StopThenReturn(err1, err2, c2)
          ELSE IF err2 # NoErr THEN StopThenReturn(err2, err2, c2)
          ELSE /\ callerPc' = "returned"
               /\ result' = [c1 |-> c1, c2 |-> c2, stop |-> TRUE, err |-> NoErr]
               /\ UNCHANGED <<c1, c2, sockets, openAtReturn, crashed, faults>>
    /\ races' = IF SwitchReadsErr0(helper)
                THEN races \cup {[var |-> "err0", writer |-> proxyPc]}
                ELSE races
    /\ UNCHANGED <<acc, pc, call, conf, names, pemData, password, ret, heap,
                 built, writes, helper, auth, acceptPc, proxyPc, c0,
                 err0, err1, err2, done, pending, clientCfg,
                 serverCfg, hs>>

\* select, case time.After: the timer has fired.  The accept task may have
\* closed done by then as well, and select then takes either case.  The TLS
\* helpers close the target listener; the others call stop, which reads
\* err2 and c2 with no signal from the accept task.
SelectTimeout ==
    /\ ~crashed
    /\ callerPc = "select"
    /\ IF IsTLS(helper)
       THEN /\ ReturnError(Error(AcceptTimeout(helper)), Close(sockets, "target"))
            /\ UNCHANGED <<crashed, faults, races>>
       ELSE /\ \E e2 \in {NoErr, err2}, v2 \in {"nil", c2} :
                  StopThenReturn(Error(AcceptTimeout(helper)), e2, v2)
            /\ races' = races \cup {[var |-> "err2", writer |-> acceptPc],
                                     [var |-> "c2", writer |-> acceptPc]}
    /\ UNCHANGED <<acc, pc, call, conf, names, pemData, password, ret, heap,
                 built, writes, helper, auth, acceptPc, proxyPc, c0,
                 err0, err1, err2, done, pending, clientCfg,
                 serverCfg, hs>>

\* the test calls the stop function that the helper returned
CallStop ==
    /\ ~crashed
    /\ callerPc = "returned"
    /\ result.stop
    /\ LET st == Stop(helper, err1, c1, err2, c2, sockets)
       IN  /\ sockets' = st.sockets
           /\ faults' = IF st.fault = "" THEN faults ELSE faults \cup {st.fault}
           /\ crashed' = (st.fault # "")
           /\ callerPc' = IF st.fault = "" THEN "stopped" ELSE "panicked"
    /\ UNCHANGED <<acc, pc, call, conf, names, pemData, password, ret, heap,
                 built, writes, helper, auth, acceptPc, proxyPc, c0,
                 c1, c2, err0, err1, err2, done, pending, clientCfg,
                 serverCfg, hs, result, openAtReturn, races>>

\* the accept task, ln.Accept(): it returns a pending connection, or an
\* error.  What it returned is not yet in c2 and err2.
Accept ==
    /\ ~crashed
    /\ acceptPc = "accept"
    /\ \/ /\ "target" \in pending
          /\ sockets["target"] = "open"
          /\ acc' = [c |-> "accepted", err |-> NoErr]
          /\ sockets' = [sockets EXCEPT !["accepted"] = "open"]
          /\ pending' = pending \ {"target"}
       \/ /\ acc' = [c |-> "nil", err |-> AcceptError]
          /\ UNCHANGED <<sockets, pending>>
    /\ acceptPc' = "store"
    /\ UNCHANGED <<pc, call, conf, names, pemData, password, ret, heap,
                 built, writes, helper, auth, callerPc, proxyPc, c0,
                 c1, c2, err0, err1, err2, done, clientCfg, serverCfg, hs,
                 result, openAtReturn, faults, races, crashed>>

\* the accept task, c2, err2 = ...: the stores to the variables it shares
\* with the caller.  A store that comes after the caller's return of an
\* error writes over the nil of the return.
Store ==
    /\ ~crashed
    /\ acceptPc = "store"
    /\ c2' = acc.c
    /\ err2' = acc.err
    /\ acceptPc' = "signal"
    /\ UNCHANGED <<acc, pc, call, conf, names, pemData, password, ret, heap,
                 built, writes, helper, auth, callerPc, proxyPc, c0,
                 c1, err0, err1, done, sockets, pending, clientCfg,
                 serverCfg, hs, result, openAtReturn, faults, races,
                 crashed>>

\* the accept task: close(done), and in two helpers the return on err2
Signal ==
    /\ ~crashed
    /\ acceptPc = "signal"
    /\ done' = TRUE
    /\ acceptPc' = IF ~IsTLS(helper) THEN "end"
                   ELSE IF AcceptTaskChecksErr2(helper) /\ err2 # NoErr THEN "end"
                   ELSE "read"
    /\ UNCHANGED <<acc, pc, call, conf, names, pemData, password, ret, heap,
                 built, writes, helper, auth, callerPc, proxyPc, c0,
                 c1, c2, err0, err1, err2, sockets, pending,
                 clientCfg, serverCfg, hs, result, openAtReturn,
                 faults, races, crashed>>

\* the accept task of a TLS helper calls c2.Read: on a nil c2 that panics
Read ==
    /\ ~crashed
    /\ acceptPc = "read"
    /\ IF c2 = "nil"
       THEN /\ acceptPc' = "panicked"
            /\ crashed' = TRUE
            /\ faults' = faults \cup {"Read on nil c2"}
       ELSE /\ acceptPc' = "reading"
            /\ UNCHANGED <<crashed, faults>>
    /\ UNCHANGED <<acc, pc, call, conf, names, pemData, password, ret, heap,
                 built, writes, helper, auth, callerPc, proxyPc, c0,
                 c1, c2, err0, err1, err2, done, sockets, pending,
                 clientCfg, serverCfg, hs, result, openAtReturn,
                 races>>

\* c2.Read fails: the dialer has closed its socket
ReadFails ==
    /\ ~crashed
    /\ acceptPc = "reading"
    /\ sockets["dialed"] = "closed"
    /\ acceptPc' = "end"
    /\ UNCHANGED <<acc, pc, call, conf, names, pemData, password, ret, heap,
                 built, writes, helper, auth, callerPc, proxyPc, c0,
                 c1, c2, err0, err1, err2, done, sockets, pending,
                 clientCfg, serverCfg, hs, result, openAtReturn,
                 faults, races, crashed>>

\* the proxy task accepts: proxy.Accept of the SOCKS5 helpers, which store
\* the result in c0 and err0, or the accept loop of http.Serve
ProxyAccept ==
    /\ ~crashed
    /\ proxyPc = "accept"
    /\ \/ /\ "proxy" \in pending
          /\ sockets["proxy"] = "open"
          /\ sockets' = [sockets EXCEPT !["proxied"] = "open"]
          /\ pending' = pending \ {"proxy"}
          /\ c0' = IF ProxyKind(helper) = "socks5" THEN "proxied" ELSE c0
          /\ proxyPc' = "serve"
          /\ UNCHANGED err0
       \/ /\ err0' = IF ~ProxyTaskWritesErr0(helper) THEN err0
                     ELSE IF ProxyKind(helper) = "socks5" THEN AcceptError
                     ELSE ServeError
          /\ proxyPc' = "end"
          /\ UNCHANGED <<sockets, pending, c0>>
    /\ UNCHANGED <<acc, pc, call, conf, names, pemData, password, ret, heap,
                 built, writes, helper, auth, callerPc, acceptPc, c1,
                 c2, err1, err2, done, clientCfg, serverCfg, hs,
                 result, openAtReturn, faults, races, crashed>>

\* the proxy task is done with the connection: server.ServeConn returns, once
\* the negotiation failed or an end of the tunnel is closed, and the SOCKS5
\* helpers store its result in err0; http.Serve returns once the proxy
\* listener is closed, and makeHttpProxyPipe stores its error in err0
ProxyServeReturns ==
    /\ ~crashed
    /\ proxyPc \in {"serve", "tunnel", "failed"}
    /\ IF ProxyKind(helper) = "socks5"
       THEN /\ \/ proxyPc = "failed"
               \/ sockets["dialed"] = "closed"
               \/ sockets["accepted"] = "closed"
            /\ \E e \in {NoErr, ServeError} :
                  /\ proxyPc = "failed" => e = ServeError
                  /\ err0' = e
            /\ sockets' = Close(sockets, "proxied")
       ELSE /\ sockets["proxy"] = "closed"
            /\ err0' = IF ProxyTaskWritesErr0(helper) THEN ServeError ELSE err0
            /\ UNCHANGED sockets
    /\ proxyPc' = "end"
    /\ UNCHANGED <<acc, pc, call, conf, names, pemData, password, ret, heap,
                 built, writes, helper, auth, callerPc, acceptPc, c0,
                 c1, c2, err1, err2, done, pending, clientCfg,
                 serverCfg, hs, result, openAtReturn, faults, races,
                 crashed>>

NextPipe ==
    \/ CallMakePipe
    \/ DialConnect
    \/ ProxyNegotiate
    \/ NegotiateTimeout
    \/ TLSHandshake
    \/ HandshakeTimeout
    \/ CheckDial
    \/ SelectDone
    \/ SelectTimeout
    \/ CallStop
    \/ Accept
    \/ Store
    \/ Signal
    \/ Read
    \/ ReadFails
    \/ ProxyAccept
    \/ ProxyServeReturns

SpecPipe == Init /\ [][NextPipe]_vars

\* the tasks are scheduled and the timers fire: a step that can be taken is
\* taken in the end
FairSpecPipe == SpecPipe /\ WF_vars(NextPipe)

(***************************************************************************)
(* Settings objects that live on: the process builds settings one after    *)
(* the other and keeps them.  A settings object holds its cipher-suite and *)
(* curve lists as slices, that is by the array behind them; what a reader  *)
(* of the list sees is the present contents of that array.  built[i] is    *)
(*   kind               "listener" or "client"                             *)
(*   CipherSuites       the array of tls.Config.CipherSuites, or NilArray  *)
(*   CurvePreferences   the array of tls.Config.CurvePreferences, or such  *)
(*   suites, curves     the lists as they were built and as changed        *)
(*                      through this object since                          *)
(***************************************************************************)
ShareCipherLists == { <<>>, <<S_ECDHE_RSA_AES128_GCM_SHA256>>, << <<" ">> >> }

ShareCurveLists == { <<>>, <<S_P521>>, <<S_p384>> }

SliceValue(array) == IF array = NilArray THEN <<>> ELSE heap[array]

\* the heap once the arrays that a build made hold their lists
HeapWith(n, sa, ca, cfg) ==
    [heap EXCEPT
        ![MadeSuites(n)] = IF sa = MadeSuites(n) THEN cfg.CipherSuites ELSE @,
        ![MadeCurves(n)] = IF ca = MadeCurves(n) THEN cfg.CurvePreferences ELSE @]

\* the process keeps the settings r that a build returned, if any
KeepSettings(r, kind, sa, ca, made) ==
    IF r.isNil
    THEN UNCHANGED <<heap, built>>
    ELSE /\ heap' = made
         /\ built' = Append(built,
                [kind |-> kind,
                 CipherSuites |-> sa,
                 CurvePreferences |-> ca,
                 suites |-> IF sa = NilArray THEN <<>> ELSE made[sa],
                 curves |-> IF ca = NilArray THEN <<>> ELSE made[ca]])

\* newTLSListenerConfig, called with the certificate and key of the test
\* bundle; the settings are kept when the build succeeds
BuildListenerSettings ==
    /\ Len(built) < MaxBuilt
    /\ \E suites \in ShareCipherLists, curves \in ShareCurveLists :
          LET c == [ZeroConf EXCEPT !.Proxy.TLS =
                       [ListenerCertFile |-> "server.crt",
                        ListenerKeyFile |-> "server.key",
                        ListenerKeyPassword |-> "",
                        CAChainCertFile |-> "",
                        ListenerCipherSuites |-> suites,
                        ListenerCurvePreferences |-> curves]]
              n == Len(built) + 1
          IN  KeepSettings(newTLSListenerConfig(c), "listener",
                           cipherSuitesArray(suites, MadeSuites(n)),
                           curvePreferencesArray(curves, MadeCurves(n)),
                           HeapWith(n, cipherSuitesArray(suites, MadeSuites(n)),
                                    curvePreferencesArray(curves, MadeCurves(n)),
                                    newTLSListenerConfig(c).cfg))
    /\ UNCHANGED <<writes, callVars, pipeVars>>

\* newTLSClientConfig, called with the zero options: its settings have no
\* cipher-suite and no curve list
BuildClientSettings ==
    /\ Len(built) < MaxBuilt
    /\ KeepSettings(newTLSClientConfig(ZeroConf), "client", NilArray, NilArray, heap)
    /\ UNCHANGED <<writes, callVars, pipeVars>>

\* the holder of settings object i assigns to an element of its cipher-suite
\* list
WriteCipherSuite ==
    /\ writes < MaxWrites
    /\ \E i \in 1..Len(built) :
       \E k \in 1..Len(SliceValue(built[i].CipherSuites)) :
          /\ heap' = [heap EXCEPT ![built[i].CipherSuites][k] = TLS_RSA_WITH_AES_128_CBC_SHA]
          /\ built' = [built EXCEPT ![i].suites[k] = TLS_RSA_WITH_AES_128_CBC_SHA]
    /\ writes' = writes + 1
    /\ UNCHANGED <<callVars, pipeVars>>

\* the holder of settings object i assigns to an element of its curve list
WriteCurvePreference ==
    /\ writes < MaxWrites
    /\ \E i \in 1..Len(built) :
       \E k \in 1..Len(SliceValue(built[i].CurvePreferences)) :
          /\ heap' = [heap EXCEPT ![built[i].CurvePreferences][k] = CurveP384]
          /\ built' = [built EXCEPT ![i].curves[k] = CurveP384]
    /\ writes' = writes + 1
    /\ UNCHANGED <<callVars, pipeVars>>

NextShare ==
    \/ BuildListenerSettings
    \/ BuildClientSettings
    \/ WriteCipherSuite
    \/ WriteCurvePreference

SpecShare == Init /\ [][NextShare]_vars

(***************************************************************************)
(* Properties.  Helpers that state them without the operators above.       *)
(***************************************************************************)
Done(f) == pc = "done" /\ call = f

Range(s) == { s[i] : i \in 1..Len(s) }

\* the identifiers a table pairs with the trimmed name (none, or one)
IdsNamed(table, name) ==
    { table[i][2] : i \in { j \in 1..Len(table) : table[j][1] = TrimSpace(name) } }

Recognized(table, name) == IdsNamed(table, name) # {}

IdNamed(table, name) == CHOOSE id \in IdsNamed(table, name) : TRUE

AllRecognized(table, list) ==
    \A i \in 1..Len(list) : Recognized(table, list[i])

\* the first name of the list that the table does not have
FirstUnrecognized(table, list) ==
    list[CHOOSE i \in 1..Len(list) :
            /\ ~Recognized(table, list[i])
            /\ \A j \in 1..(i - 1) : Recognized(table, list[j])]

\* result[i] is the identifier of name[i], for every i
ResolvedInOrder(table, list, ids) ==
    /\ Len(ids) = Len(list)
    /\ \A i \in 1..Len(list) : ids[i] = IdNamed(table, list[i])

ListenerOpts == conf.Proxy.TLS

ClientOpts == conf.Kafka.TLS

\* C1: a cipher-suite list of recognized names (after trimming) resolves
\* without error, and a non-empty one to one identifier per name, in the
\* order of the names, duplicates kept; the listener settings carry that list.
C1_RecognizedSuitesInOrder ==
    /\ (Done("getCipherSuites") /\ AllRecognized(supportedCiphersMap, names))
          => /\ ret.err = NoErr
             /\ names # <<>> => ResolvedInOrder(supportedCiphersMap, names, ret.ids)
    /\ (/\ Done("newTLSListenerConfig")
        /\ ~ret.isNil
        /\ ListenerOpts.ListenerCipherSuites # <<>>)
          => ResolvedInOrder(supportedCiphersMap, ListenerOpts.ListenerCipherSuites,
                             ret.cfg.CipherSuites)

\* three recognized names, the first and last the same, the second another
\* and padded with white space
C1_Witness ==
    /\ Done("getCipherSuites")
    /\ Len(names) = 3
    /\ AllRecognized(supportedCiphersMap, names)
    /\ names[1] = names[3]
    /\ names[2] # TrimSpace(names[2])
    /\ ret.ids[1] # ret.ids[2]
    /\ ret.err = NoErr

HasUnrecognized(table, list) == ~AllRecognized(table, list)

\* the certificate and the key of the listener load and pair
ListenerKeyPairLoads ==
    /\ ~listenerFilesEmpty(ListenerOpts)
    /\ listenerKeyPair(ListenerOpts).err = NoErr

\* C2 as stated: whenever the cipher-suite list or the curve list of a
\* listener configuration has a name that its table does not have, the build
\* fails, returns no settings, and the error carries the first such name of
\* that list as configured.
C2_ErrorNamesFirstUnrecognized ==
    Done("newTLSListenerConfig") =>
        /\ HasUnrecognized(supportedCiphersMap, ListenerOpts.ListenerCipherSuites)
              => /\ ret.isNil
                 /\ ret.err # NoErr
                 /\ ret.err.name = FirstUnrecognized(supportedCiphersMap,
                                                     ListenerOpts.ListenerCipherSuites)
        /\ HasUnrecognized(supportedCurvesMap, ListenerOpts.ListenerCurvePreferences)
              => /\ ret.isNil
                 /\ ret.err # NoErr
                 /\ ret.err.name = FirstUnrecognized(supportedCurvesMap,
                                                     ListenerOpts.ListenerCurvePreferences)

\* C2, amended: a listener build whose cipher-suite or curve list has a name
\* that (after trimming) its table does not have fails and returns no
\* settings.  When the certificate and key load and pair, the error is the
\* one of the first such cipher-suite name, as configured; when every
\* cipher-suite name resolves, the one of the first such curve name.  Called
\* on their own, getCipherSuites and getCurvePreferences return that error and
\* no identifiers.
C2_Amended ==
    /\ Done("newTLSListenerConfig") =>
        LET suites == ListenerOpts.ListenerCipherSuites
            curves == ListenerOpts.ListenerCurvePreferences
        IN  /\ (HasUnrecognized(supportedCiphersMap, suites)
                   \/ HasUnrecognized(supportedCurvesMap, curves))
                  => ret.isNil /\ ret.err # NoErr /\ ret.cfg = ZeroConfig
            /\ (ListenerKeyPairLoads /\ HasUnrecognized(supportedCiphersMap, suites))
                  => ret.err = Errorf("invalid cipher suite '%s' selected",
                                      FirstUnrecognized(supportedCiphersMap, suites))
            /\ (/\ ListenerKeyPairLoads
                /\ AllRecognized(supportedCiphersMap, suites)
                /\ HasUnrecognized(supportedCurvesMap, curves))
                  => ret.err = Errorf("invalid curveID '%s' selected",
                                      FirstUnrecognized(supportedCurvesMap, curves))
    /\ (Done("getCipherSuites") /\ HasUnrecognized(supportedCiphersMap, names))
          => /\ ret.ids = <<>>
             /\ ret.err = Errorf("invalid cipher suite '%s' selected",
                                 FirstUnrecognized(supportedCiphersMap, names))
    /\ (Done("getCurvePreferences") /\ HasUnrecognized(supportedCurvesMap, names))
          => /\ ret.ids = <<>>
             /\ ret.err = Errorf("invalid curveID '%s' selected",
                                 FirstUnrecognized(supportedCurvesMap, names))

\* the key pair loads, the cipher-suite name resolves, and the curve list is
\* a recognized name followed by an unknown one that is padded: the error
\* carries the padded name
C2_Witness ==
    /\ Done("newTLSListenerConfig")
    /\ ListenerKeyPairLoads
    /\ Len(ListenerOpts.ListenerCipherSuites) = 0
    /\ Len(ListenerOpts.ListenerCurvePreferences) = 2
    /\ Recognized(supportedCurvesMap, ListenerOpts.ListenerCurvePreferences[1])
    /\ ~Recognized(supportedCurvesMap, ListenerOpts.ListenerCurvePreferences[2])
    /\ ret.err.name = ListenerOpts.ListenerCurvePreferences[2]
    /\ ret.err.name # TrimSpace(ret.err.name)
    /\ ret.isNil

\* the six entries at the top of the cipher-suite table
TopSixSuites == { supportedCiphersMap[i][2] : i \in 1..6 }

\* C3: an empty cipher-suite list gives exactly the six suites at the top of
\* the table and an empty curve list exactly P256 and X25519; a non-empty list
\* of recognized names gives the identifiers of the names and no other.
C3_DefaultsOnlyWhenEmpty ==
    /\ (Done("getCipherSuites") /\ names = <<>>)
          => ret.err = NoErr /\ Len(ret.ids) = 6 /\ Range(ret.ids) = TopSixSuites
    /\ (Done("getCurvePreferences") /\ names = <<>>)
          => ret.err = NoErr /\ Len(ret.ids) = 2 /\ Range(ret.ids) = {CurveP256, X25519}
    /\ (Done("getCipherSuites") /\ names # <<>> /\ ret.err = NoErr)
          => Range(ret.ids) = { IdNamed(supportedCiphersMap, n) : n \in Range(names) }
    /\ (Done("getCurvePreferences") /\ names # <<>> /\ ret.err = NoErr)
          => Range(ret.ids) = { IdNamed(supportedCurvesMap, n) : n \in Range(names) }
    /\ (Done("newTLSListenerConfig") /\ ~ret.isNil) =>
          LET suites == ListenerOpts.ListenerCipherSuites
              curves == ListenerOpts.ListenerCurvePreferences
          IN  /\ Range(ret.cfg.CipherSuites) =
                    IF suites = <<>> THEN TopSixSuites
                    ELSE { IdNamed(supportedCiphersMap, n) : n \in Range(suites) }
              /\ Range(ret.cfg.CurvePreferences) =
                    IF curves = <<>> THEN {CurveP256, X25519}
                    ELSE { IdNamed(supportedCurvesMap, n) : n \in Range(curves) }
              /\ suites = <<>> => Len(ret.cfg.CipherSuites) = 6
              /\ curves = <<>> => Len(ret.cfg.CurvePreferences) = 2

\* a listener built with an empty cipher-suite list and one curve outside the
\* defaults: six default suites, and no default curve
C3_Witness ==
    /\ Done("newTLSListenerConfig")
    /\ ~ret.isNil
    /\ ListenerOpts.ListenerCipherSuites = <<>>
    /\ Len(ret.cfg.CipherSuites) = 6
    /\ ListenerOpts.ListenerCurvePreferences = <<S_P521>>
    /\ ret.cfg.CurvePreferences = <<CurveP521>>

IsBuilderCall == Done("newTLSListenerConfig") \/ Done("newTLSClientConfig")

\* C4 as stated: the settings either builder returns have the minimum
\* protocol version TLS 1.2.
C4_MinVersionFloor ==
    (IsBuilderCall /\ ~ret.isNil) => ret.cfg.MinVersion = VersionTLS12

\* C5 as stated: the settings the client builder returns carry a cipher-suite
\* list and a curve-preference list, each the configured or the default one.
C5_ClientCarriesSuitesAndCurves ==
    (Done("newTLSClientConfig") /\ ~ret.isNil) =>
        /\ ret.cfg.CipherSuites # <<>>
        /\ Range(ret.cfg.CipherSuites) \subseteq
              { supportedCiphersMap[i][2] : i \in 1..Len(supportedCiphersMap) }
        /\ ret.cfg.CurvePreferences # <<>>
        /\ Range(ret.cfg.CurvePreferences) \subseteq
              { supportedCurvesMap[i][2] : i \in 1..Len(supportedCurvesMap) }

\* the file at the path has a CERTIFICATE block, without headers, that parses
HasTrustedCertificate(path) ==
    /\ path \in DOMAIN Files
    /\ \E i \in 1..Len(Files[path]) :
          /\ Files[path][i].isPEM
          /\ Files[path][i].Type = T_CERTIFICATE
          /\ Files[path][i].Headers = {}
          /\ Files[path][i].Bytes.kind = "cert"

\* C6: the settings the listener builder returns require and verify client
\* certificates, against a pool that is not empty, exactly when a CA-chain
\* path is configured; without one the mode is none and no pool is set.  A
\* configured CA chain that cannot be read or holds no certificate fails the
\* build.
C6_ClientAuthIffCAChain ==
    Done("newTLSListenerConfig") =>
        /\ ~ret.isNil =>
              IF ListenerOpts.CAChainCertFile # ""
              THEN /\ ret.cfg.ClientAuth = RequireAndVerifyClientCert
                   /\ ~ret.cfg.ClientCAs.isNil
                   /\ ret.cfg.ClientCAs.certs # {}
              ELSE /\ ret.cfg.ClientAuth = NoClientCert
                   /\ ret.cfg.ClientCAs = NilCertPool
        /\ (/\ ListenerOpts.CAChainCertFile # ""
            /\ ~HasTrustedCertificate(ListenerOpts.CAChainCertFile))
              => ret.isNil /\ ret.err # NoErr

\* a listener built with the CA chain of the test bundle
C6_Witness ==
    /\ Done("newTLSListenerConfig")
    /\ ~ret.isNil
    /\ ListenerOpts.CAChainCertFile = "ca.crt"
    /\ ret.cfg.ClientAuth = RequireAndVerifyClientCert
    /\ ret.cfg.ClientCAs.certs = {CACertDER}

\* C7: with an empty certificate path or an empty key path the listener
\* builder fails with the configuration error and has read no file; the
\* settings it returns hold exactly one certificate chain, whose leaf has the
\* public key of the private key held with it.
C7_ListenerNeedsCertAndKey ==
    Done("newTLSListenerConfig") =>
        /\ (ListenerOpts.ListenerCertFile = "" \/ ListenerOpts.ListenerKeyFile = "")
              => /\ ret.isNil
                 /\ ret.err = Error("Listener key and cert files must not be empty")
                 /\ ret.reads = <<>>
        /\ ~ret.isNil =>
              /\ Len(ret.cfg.Certificates) = 1
              /\ Len(ret.cfg.Certificates[1].Certificate) >= 1
              /\ ret.cfg.Certificates[1].Certificate[1].kind = "cert"
              /\ ret.cfg.Certificates[1].PrivateKey # ""
              /\ ret.cfg.Certificates[1].Certificate[1].key =
                    ret.cfg.Certificates[1].PrivateKey

\* the key path is set and the certificate path is empty
C7_Witness ==
    /\ Done("newTLSListenerConfig")
    /\ ListenerOpts.ListenerCertFile = ""
    /\ ListenerOpts.ListenerKeyFile = "server.key"
    /\ ret.isNil
    /\ ret.reads = <<>>

\* the data has a PEM block
HasPEMBlock(data) == \E i \in 1..Len(data) : data[i].isPEM

\* the first PEM block of the data
FirstPEMBlock(data) ==
    data[CHOOSE i \in 1..Len(data) :
            data[i].isPEM /\ \A j \in 1..(i - 1) : ~data[j].isPEM]

\* the first PEM block of the data carries the mark of the legacy encryption
FirstBlockEncrypted(data) ==
    /\ HasPEMBlock(data)
    /\ \E h \in FirstPEMBlock(data).Headers : h[1] = "DEK-Info"

\* its DEK-Info header names a known mode and an initialisation vector
WellFormedDEKInfo(b) ==
    \A h \in b.Headers :
        h[1] = "DEK-Info" =>
            /\ Len(h[2]) = 2
            /\ h[2][1] \in rfc1423Algos
            /\ Len(h[2][2]) = 2 * blockSize(h[2][1])
            /\ \A i \in 1..Len(h[2][2]) : h[2][2][i] \in HexDigits

\* C8: on data whose first PEM block is not encrypted, decryptPEM returns the
\* data as it came in, whatever the password, and decrypting what it returned
\* gives the same again.
C8_PlainPEMPassesThrough ==
    (Done("decryptPEM") /\ HasPEMBlock(pemData) /\ ~FirstBlockEncrypted(pemData))
        => /\ ret.err = NoErr
           /\ ret.data = pemData
           /\ decryptPEM(ret.data, password) = [data |-> ret.data, err |-> NoErr]

\* text, then a certificate block, then more blocks, and a password given
C8_Witness ==
    /\ Done("decryptPEM")
    /\ password = "secret"
    /\ Len(pemData) > 2
    /\ ~pemData[1].isPEM
    /\ ~FirstBlockEncrypted(pemData)
    /\ ret.data = pemData

\* C9 as stated: data without a PEM block fails as malformed; an encrypted
\* block fails with an empty password, fails with a wrong password, and only
\* with the password it was encrypted with gives a re-encoded block; a failure
\* returns no bytes.
C9_WrongPasswordAlwaysFails ==
    Done("decryptPEM") =>
        /\ ~HasPEMBlock(pemData)
              => ret.err = Error("Failed to parse PEM")
        /\ (FirstBlockEncrypted(pemData) /\ password = "")
              => ret.err = Error("PEM is encrypted, but password is empty")
        /\ (/\ FirstBlockEncrypted(pemData)
            /\ password # ""
            /\ password # FirstPEMBlock(pemData).Bytes.pw)
              => ret.err # NoErr
        /\ (FirstBlockEncrypted(pemData) /\ ret.err = NoErr)
              => /\ password = FirstPEMBlock(pemData).Bytes.pw
                 /\ ret.data = << Block(T_RSA_PRIVATE_KEY, {},
                                        KeyDER(FirstPEMBlock(pemData).Bytes.key)) >>
        /\ ret.err # NoErr => ret.data = <<>>

\* C9, amended: data without a PEM block fails as malformed; an encrypted
\* block fails with an empty password before any decryption; with a wrong
\* password it fails with the decryption error, unless the bytes decrypted
\* under that password end in well-formed padding, and then decryptPEM returns
\* without an error a re-encoded block of noise; with the password it was
\* encrypted with (and a well-formed DEK-Info header) it gives the re-encoded
\* plaintext key, and a plaintext key comes from that password only; a failure
\* returns no bytes.
C9_Amended ==
    Done("decryptPEM") =>
        /\ ~HasPEMBlock(pemData)
              => ret.err = Error("Failed to parse PEM")
        /\ (FirstBlockEncrypted(pemData) /\ password = "")
              => ret.err = Error("PEM is encrypted, but password is empty")
        /\ (/\ FirstBlockEncrypted(pemData)
            /\ password # ""
            /\ password # FirstPEMBlock(pemData).Bytes.pw)
              => IF WellFormedDEKInfo(FirstPEMBlock(pemData))
                      /\ password \in FirstPEMBlock(pemData).Bytes.pads
                 THEN /\ ret.err = NoErr
                      /\ ret.data = << Block(T_RSA_PRIVATE_KEY, {}, NoiseDER) >>
                 ELSE ret.err # NoErr
        /\ (/\ FirstBlockEncrypted(pemData)
            /\ WellFormedDEKInfo(FirstPEMBlock(pemData))
            /\ password # ""
            /\ password = FirstPEMBlock(pemData).Bytes.pw)
              => /\ ret.err = NoErr
                 /\ ret.data = << Block(T_RSA_PRIVATE_KEY, {},
                                        KeyDER(FirstPEMBlock(pemData).Bytes.key)) >>
        /\ (/\ FirstBlockEncrypted(pemData)
            /\ ret.err = NoErr
            /\ ret.data[1].Bytes.kind = "pkcs1")
              => password = FirstPEMBlock(pemData).Bytes.pw
        /\ ret.err # NoErr => ret.data = <<>>

\* an encrypted block and a wrong password under which the padding is well
\* formed: no error, and a block of noise
C9_Witness ==
    /\ Done("decryptPEM")
    /\ FirstBlockEncrypted(pemData)
    /\ password # ""
    /\ password # FirstPEMBlock(pemData).Bytes.pw
    /\ ret.err = NoErr
    /\ ret.data = << Block(T_RSA_PRIVATE_KEY, {}, NoiseDER) >>

\* C10: the settings the client builder returns skip the verification of the
\* peer certificate exactly when the skip-verify flag is configured; with the
\* flag false, no certificate, key, password or CA chain makes them skip it.
C10_SkipVerifyIffFlag ==
    (Done("newTLSClientConfig") /\ ~ret.isNil)
        => ret.cfg.InsecureSkipVerify = ClientOpts.InsecureSkipVerify

\* the flag is false, a client certificate and key are loaded, no CA chain is
\* configured: the peer certificate is verified
C10_Witness ==
    /\ Done("newTLSClientConfig")
    /\ ~ret.isNil
    /\ ~ClientOpts.InsecureSkipVerify
    /\ ClientOpts.ClientCertFile = "server.crt"
    /\ ClientOpts.ClientKeyFile = "enc.key"
    /\ ClientOpts.CAChainCertFile = ""
    /\ ret.cfg.Certificates # <<>>
    /\ ~ret.cfg.InsecureSkipVerify

\* what the client builder reads for the CA chain alone
CAChainReads(opts) ==
    IF opts.CAChainCertFile = "" THEN <<>> ELSE <<opts.CAChainCertFile>>

ExactlyOneClientFile ==
    (ClientOpts.ClientCertFile = "") # (ClientOpts.ClientKeyFile = "")

\* the CA chain of the client options, when one is configured, loads
ClientCAChainLoads ==
    ClientOpts.CAChainCertFile = "" \/ HasTrustedCertificate(ClientOpts.CAChainCertFile)

\* C11 as stated: the settings the client builder returns carry a client
\* identity exactly when both paths are configured; with exactly one of them
\* configured neither file is read and the build returns settings without an
\* identity, not an error.
C11_ClientPairOrNothing ==
    Done("newTLSClientConfig") =>
        /\ ~ret.isNil =>
              (ret.cfg.Certificates # <<>>
                 <=> (ClientOpts.ClientCertFile # "" /\ ClientOpts.ClientKeyFile # ""))
        /\ ExactlyOneClientFile
              => /\ ret.reads = CAChainReads(ClientOpts)
                 /\ ~ret.isNil
                 /\ ret.err = NoErr
                 /\ ret.cfg.Certificates = <<>>

\* C11, amended: the settings the client builder returns carry a client
\* identity exactly when both paths are configured.  With exactly one of them
\* configured neither file is read and the half-configured pair is no error:
\* the build returns settings without an identity, unless a configured CA
\* chain fails to load, which fails the build as it does without any client
\* paths.
C11_Amended ==
    Done("newTLSClientConfig") =>
        /\ ~ret.isNil =>
              (ret.cfg.Certificates # <<>>
                 <=> (ClientOpts.ClientCertFile # "" /\ ClientOpts.ClientKeyFile # ""))
        /\ ExactlyOneClientFile
              => /\ ret.reads = CAChainReads(ClientOpts)
                 /\ ret.cfg.Certificates = <<>>
                 /\ ret.cfg.NameToCertificate = {}
                 /\ IF ClientCAChainLoads
                    THEN ~ret.isNil /\ ret.err = NoErr
                    ELSE /\ ret.isNil
                         /\ ret.err \in
                              { PathError(ClientOpts.CAChainCertFile),
                                Error("Failed to parse client root certificate") }

\* only the key path is configured, and a CA chain: the key file is not read,
\* the settings have the trust roots and no identity
C11_Witness ==
    /\ Done("newTLSClientConfig")
    /\ ClientOpts.ClientCertFile = ""
    /\ ClientOpts.ClientKeyFile = "missing.pem"
    /\ ClientOpts.CAChainCertFile = "ca.crt"
    /\ ret.reads = <<"ca.crt">>
    /\ ~ret.isNil
    /\ ret.cfg.Certificates = <<>>

\* the certificates of the file at the path: its CERTIFICATE blocks, without
\* headers, that parse
CertificatesOfFile(path) ==
    { Files[path][i].Bytes : i \in
        { j \in 1..Len(Files[path]) :
            /\ Files[path][j].isPEM
            /\ Files[path][j].Type = T_CERTIFICATE
            /\ Files[path][j].Headers = {}
            /\ Files[path][j].Bytes.kind = "cert" } }

\* C12: the settings the client builder returns have a trust-root pool of
\* their own exactly when a CA-chain path is configured, and the pool holds
\* the certificates of that file and no other; a configured CA chain that
\* cannot be read or holds no certificate fails the build.
C12_RootCAsIffCAChain ==
    Done("newTLSClientConfig") =>
        /\ ~ret.isNil =>
              IF ClientOpts.CAChainCertFile # ""
              THEN /\ ~ret.cfg.RootCAs.isNil
                   /\ ret.cfg.RootCAs.certs # {}
                   /\ ret.cfg.RootCAs.certs = CertificatesOfFile(ClientOpts.CAChainCertFile)
              ELSE ret.cfg.RootCAs = NilCertPool
        /\ (/\ ClientOpts.CAChainCertFile # ""
            /\ ~HasTrustedCertificate(ClientOpts.CAChainCertFile))
              => ret.isNil /\ ret.err # NoErr

\* a client built with the CA chain of the test bundle
C12_Witness ==
    /\ Done("newTLSClientConfig")
    /\ ~ret.isNil
    /\ ClientOpts.CAChainCertFile = "ca.crt"
    /\ ret.cfg.RootCAs.certs = {CACertDER}
    /\ ret.cfg.ClientCAs = NilCertPool

WhiteSpace ==
    {" ", "\t", "\n", "\r", "\f", VerticalTab, NextLine, NoBreakSpace} \cup SpaceSeparators

OnlyWhiteSpace(name) == \A i \in 1..Len(name) : name[i] \in WhiteSpace

\* name is bare with white space, and nothing else, before and after it
StripsTo(name, bare) ==
    \E i \in 1..(Len(name) + 1) :
        /\ i + Len(bare) - 1 <= Len(name)
        /\ SubSeq(name, i, i + Len(bare) - 1) = bare
        /\ \A j \in 1..Len(name) :
              (j < i \/ j > i + Len(bare) - 1) => name[j] \in WhiteSpace

LowerLetters ==
    <<"a", "b", "c", "d", "e", "f", "g", "h", "i", "j", "k", "l", "m",
      "n", "o", "p", "q", "r", "s", "t", "u", "v", "w", "x", "y", "z">>

UpperLetters ==
    <<"A", "B", "C", "D", "E", "F", "G", "H", "I", "J", "K", "L", "M",
      "N", "O", "P", "Q", "R", "S", "T", "U", "V", "W", "X", "Y", "Z">>

ToUpper(c) ==
    IF \E k \in 1..26 : LowerLetters[k] = c
    THEN UpperLetters[CHOOSE k \in 1..26 : LowerLetters[k] = c]
    ELSE c

\* name is not the table's spelling of bare, and differs from it in the case
\* of letters only
DiffersInCaseOnly(name, bare) ==
    /\ name # bare
    /\ Len(name) = Len(bare)
    /\ \A i \in 1..Len(name) : ToUpper(name[i]) = ToUpper(bare[i])

\* the entries of the table whose name the configured name is a padding of
EntriesOf(table, name) ==
    { k \in 1..Len(table) : StripsTo(name, table[k][1]) }

\* the positions of the list with a name that is a padding of no table name
Rejected(table, list) ==
    { i \in 1..Len(list) : EntriesOf(table, list[i]) = {} }

\* a non-empty list resolves by exact match of the names without their
\* padding, or fails on its first name that matches nothing
MatchesTrimmedExactly(table, list, ids, err, msg) ==
    IF Rejected(table, list) = {}
    THEN /\ err = NoErr
         /\ Len(ids) = Len(list)
         /\ \A i \in 1..Len(list) : \A k \in EntriesOf(table, list[i]) :
               ids[i] = table[k][2]
    ELSE /\ ids = <<>>
         /\ err = Errorf(msg, list[CHOOSE i \in Rejected(table, list) :
                                     \A j \in Rejected(table, list) : i <= j])

\* a name differing from a table name in letter case only fails the list, and
\* so does a list of nothing but empty and white-space names
RejectsCaseAndBlank(table, list, ids, err) ==
    /\ (\E i \in 1..Len(list) : \E k \in 1..Len(table) :
           DiffersInCaseOnly(list[i], table[k][1]))
          => err # NoErr /\ ids = <<>>
    /\ (\A i \in 1..Len(list) : OnlyWhiteSpace(list[i]))
          => err # NoErr /\ ids = <<>>

\* C16: a cipher-suite or curve name is matched without the white space
\* around it and with the case of its letters: a padded recognized name
\* resolves to the identifier of the bare name, a name that differs from a
\* recognized one in letter case only is rejected, and a non-empty list of
\* empty or white-space-only names is rejected and not taken for the empty
\* list.
C16_TrimmedCaseSensitiveMatch ==
    /\ (Done("getCipherSuites") /\ names # <<>>)
          => /\ MatchesTrimmedExactly(supportedCiphersMap, names, ret.ids, ret.err,
                                      "invalid cipher suite '%s' selected")
             /\ RejectsCaseAndBlank(supportedCiphersMap, names, ret.ids, ret.err)
    /\ (Done("getCurvePreferences") /\ names # <<>>)
          => /\ MatchesTrimmedExactly(supportedCurvesMap, names, ret.ids, ret.err,
                                      "invalid curveID '%s' selected")
             /\ RejectsCaseAndBlank(supportedCurvesMap, names, ret.ids, ret.err)

\* a padded X25519 resolves, then an all-blank name and a lower-case p384:
\* the blank name is the error
C16_Witness ==
    /\ Done("getCurvePreferences")
    /\ names = << <<"\n", VerticalTab>> \o S_X25519 \o <<NoBreakSpace>>, <<>>, S_p384 >>
    /\ ret.ids = <<>>
    /\ ret.err.name = <<>>

\* the package-level default sets hold what they were initialized with
DefaultsUnchanged ==
    /\ heap[DefaultCipherSuitesArray] = defaultCipherSuites
    /\ heap[DefaultCurvePreferencesArray] = defaultCurvePreferences

\* every settings object reads its lists as built and as changed through
\* itself: no change made through another object shows in them
ListsOwned ==
    \A i \in 1..Len(built) :
        /\ SliceValue(built[i].CipherSuites) = built[i].suites
        /\ SliceValue(built[i].CurvePreferences) = built[i].curves

\* C17: after any sequence of listener and client builds the default sets are
\* what they were, and no change made through the cipher-suite or curve list
\* of one settings object shows in another settings object or in the
\* defaults.
C17_NoSharedLists ==
    /\ DefaultsUnchanged
    /\ ListsOwned

\* the part of C17 that the code keeps: as long as nothing is written through
\* a settings object, building leaves the default sets alone
C17_BuildsLeaveDefaults ==
    writes = 0 => DefaultsUnchanged /\ ListsOwned

ListenerHasCAChain == ListenerOpts.CAChainCertFile # ""

ClientHasNoPair == ClientOpts.ClientCertFile = "" \/ ClientOpts.ClientKeyFile = ""

\* the certificate file of the client holds a certificate that a CA of the
\* listener's CA chain issued
ClientCertFromListenerCA ==
    /\ ~ClientHasNoPair
    /\ ListenerHasCAChain
    /\ \E ca \in CertificatesOfFile(ListenerOpts.CAChainCertFile) :
          IssuedBy(CertificateBlocks(ReadFile(ClientOpts.ClientCertFile).data)[1], ca)

\* every certificate of the listener's certificate file parses, and the
\* client skips the verification or its CA chain holds the issuer of the
\* listener's certificate
ClientTrustsListener ==
    /\ \A i \in 1..Len(Files[ListenerOpts.ListenerCertFile]) :
          (/\ Files[ListenerOpts.ListenerCertFile][i].isPEM
           /\ Files[ListenerOpts.ListenerCertFile][i].Type = T_CERTIFICATE)
             => Files[ListenerOpts.ListenerCertFile][i].Bytes.kind = "cert"
    /\ \/ ClientOpts.InsecureSkipVerify
       \/ /\ ClientOpts.CAChainCertFile # ""
          /\ \E ca \in CertificatesOfFile(ClientOpts.CAChainCertFile) :
                IssuedBy(CertificateBlocks(ReadFile(ListenerOpts.ListenerCertFile).data)[1],
                         ca)

HelperReturned == callerPc \in {"returned", "stopped"}

\* both ends completed the handshake, and the helper, once it has returned,
\* returned the connected pair
DialAndAcceptCompletes ==
    /\ hs.client = "ok"
    /\ hs.server = "ok"
    /\ HelperReturned =>
          /\ result.err = NoErr
          /\ result.c1 = "dialed"
          /\ result.c2 = "accepted"

\* C13 as stated: when the listener is configured with a CA chain, the dial
\* and accept of a TLS helper complete if the client has a certificate of
\* that CA, and the handshake fails if the client has no certificate or one
\* of an unrelated CA; without a CA chain the listener requests no client
\* certificate and gets none.
C13_MutualTLSByCAChain ==
    (IsTLS(helper) /\ hs.ran) =>
        /\ (ListenerHasCAChain /\ ClientCertFromListenerCA) => DialAndAcceptCompletes
        /\ (ListenerHasCAChain /\ ~ClientCertFromListenerCA) => hs.server = "failed"
        /\ ~ListenerHasCAChain =>
              /\ ~hs.requested
              /\ hs.sent = <<>>
              /\ hs.server = hs.client

\* both ends completed the handshake, and the helper, once it has returned,
\* returned the connected pair, or the timeout of its select
CompletesUnlessTimerFired ==
    /\ hs.client = "ok"
    /\ hs.server = "ok"
    /\ HelperReturned =>
          \/ /\ result.err = NoErr
             /\ result.c1 = "dialed"
             /\ result.c2 = "accepted"
          \/ result.err = Error(AcceptTimeout(helper))

\* C13, amended: the dial and accept complete if the client has a certificate
\* of the listener's CA and accepts the certificate of the listener (every
\* certificate the listener sends parses, and the client skips the
\* verification or its own CA chain holds the issuer), and the helper
\* then returns the pair unless the timer of its select has fired; the rest
\* as stated.
C13_Amended ==
    (IsTLS(helper) /\ hs.ran) =>
        /\ (ListenerHasCAChain /\ ClientCertFromListenerCA /\ ClientTrustsListener)
              => CompletesUnlessTimerFired
        /\ (ListenerHasCAChain /\ ~ClientCertFromListenerCA) => hs.server = "failed"
        /\ ~ListenerHasCAChain =>
              /\ ~hs.requested
              /\ hs.sent = <<>>
              /\ hs.server = hs.client

\* makeTLSPipe returned a pair whose handshake had the listener verify the
\* client certificate of the bundle
C13_Witness ==
    /\ helper = "makeTLSPipe"
    /\ callerPc = "returned"
    /\ result.err = NoErr
    /\ ListenerOpts.CAChainCertFile = "ca.crt"
    /\ ClientOpts.ClientCertFile = "client.crt"
    /\ hs.requested
    /\ hs.sent = <<ClientCertDER>>
    /\ hs.server = "ok"

\* the sockets C14 names
NamedSockets == {"target", "proxy", "dialed", "accepted"}

\* C14: when a helper returns an error, the target listener, the proxy
\* listener, the dialed connection and the accepted connection are closed,
\* as far as they were opened.
C14_ErrorReturnClosesAll ==
    (HelperReturned /\ result.err # NoErr) => openAtReturn \cap NamedSockets = {}

\* C15: every helper that is called returns in the end.
C15_HelperReturns == (helper # "none") ~> HelperReturned

\* C18: no task calls Read or Close on a nil connection.
C18_NoUseOfNilConnection == faults = {}

\* the task that writes the variable has not written it for the last time
MayStillWrite(r) ==
    IF r.var \in {"c2", "err2"} THEN r.writer \in {"accept", "store"}
    ELSE r.writer \in {"accept", "serve", "tunnel", "failed"}

\* C19: the caller reads no variable of a task while that task may still
\* write it.
C19_ReadsAfterLastWrite == \A r \in races : ~MayStillWrite(r)

\* C20: when a helper has returned without error, the dial succeeded, the
\* accept task closed done with no accept error, the pair is the dialed and
\* the accepted connection; until stop is called both are open and so is
\* every listener of the helper, and the call of stop closes them all.
C20_SuccessKeepsAllOpenUntilStop ==
    /\ (HelperReturned /\ result.err = NoErr) =>
          /\ err1 = NoErr
          /\ done
          /\ err2 = NoErr
          /\ result = [c1 |-> "dialed", c2 |-> "accepted", stop |-> TRUE, err |-> NoErr]
          /\ \A r \in {"dialed", "accepted"} \cup Listeners(helper) :
                sockets[r] = IF callerPc = "returned" THEN "open" ELSE "closed"
    /\ callerPc = "panicked" => ~result.stop

\* makeTLSSocks5ProxyPipe returned a pair and stop was called
C20_Witness ==
    /\ helper = "makeTLSSocks5ProxyPipe"
    /\ callerPc = "stopped"
    /\ result.c2 = "accepted"
    /\ sockets["proxy"] = "closed"
    /\ sockets["target"] = "closed"
    /\ sockets["dialed"] = "closed"
    /\ sockets["accepted"] = "closed"

=============================================================================
